---------------------------- MODULE Spec2Model ----------------------------
(***************************************************************************)
(* A model of the editing session of the image-masking editor:            *)
(*   - App (src/App.tsx): the undo/redo history of snapshots, the mask    *)
(*     settings, the tool, the loaded image and the segmentation runs;    *)
(*   - CanvasWorkspace (src/components/CanvasWorkspace.tsx): the pointer  *)
(*     handlers that commit freehand strokes and toggle segments.         *)
(*                                                                         *)
(* Indices are the code's: historyIndex is 0-based, so the current         *)
(* snapshot history[historyIndex] of the code is history[historyIndex+1]   *)
(* here.  null is modelled by 0 for imageSrc and imageObj.                  *)
(***************************************************************************)
EXTENDS Integers, Sequences, FiniteSets, TLC

(***************************************************************************)
(* Bounds of the model.                                                    *)
(***************************************************************************)
\* The longest history stack explored (an edit is explored only when the
\* stack it produces is no longer than this).
MaxHist == 3
\* The most segmentation runs outstanding at once that are explored.
MaxPending == 2
\* The most segments a segmentation run returns.
MaxSegs == 2
\* The most points sampled during one pointer drag.
MaxPts == 2
\* The most blobs saved by exports.
MaxDownloads == 1
\* The most of the K random picks that are chosen freely.
MaxFreeSeeds == 3

\* The images a user may load (each stands for one data URL).
Images == {1, 2}

\* Values the settings controls deliver (App.tsx:278-312).
PenSizes == {5, 20}
BorderSizes == {0, 2}
Feathers == {0, 3}

\* Numbers typed into the number field of a slider (SliderControl.tsx:25-33).
NumberEntries == {0, 21, 96}

\* App.tsx:75 and the tool palette App.tsx:341-360 (no control selects 'pan').
Tools == {"smart", "add", "subtract"}

\* Pointer positions in image coordinates (getPos, CanvasWorkspace.tsx:394-405).
Pt(px, py) == [x |-> px, y |-> py]
ClickPos == {Pt(1, 1), Pt(3, 3), Pt(19, 19)}
MovePos == {Pt(5, 5)}

VARIABLES
    history,        \* App.tsx:77   EditorHistoryState[]
    historyIndex,   \* App.tsx:78
    settings,       \* App.tsx:74
    tool,           \* App.tsx:75
    imageSrc,       \* App.tsx:80   (0 = null)
    isLoading,      \* App.tsx:82
    pending,        \* the runs of startSegmentation suspended at its await
                    \* (App.tsx:172), oldest first: the image of each
    imageObj,       \* CanvasWorkspace.tsx:50 (0 = null)
    imgLoading,     \* images whose img.onload (CanvasWorkspace.tsx:58) is due
    isDrawing,      \* CanvasWorkspace.tsx:47
    currentPoints,  \* CanvasWorkspace.tsx:48
    isPanning,      \* CanvasWorkspace.tsx:43
    downloaded,     \* the blobs handleExport has saved (App.tsx:224-232)
    segRun          \* the locals of the run of mockPanopticSegmentation that is
                    \* computing (CanvasWorkspace.tsx:618-786)

vars == <<history, historyIndex, settings, tool, imageSrc, isLoading, pending,
          imageObj, imgLoading, isDrawing, currentPoints, isPanning, downloaded, segRun>>

appVars == <<history, historyIndex, settings, tool, imageSrc, isLoading, pending,
             downloaded, segRun>>
canvasVars == <<imageObj, imgLoading, isDrawing, currentPoints, isPanning>>

\* No run of the segmenter is computing.
SegIdle ==
    [stage |-> "idle", img |-> 0,
     imageData |-> [width |-> 0, height |-> 0, data |-> <<>>],
     scale |-> [num |-> 1, den |-> 1], w |-> 0, h |-> 0, pixels |-> <<>>,
     histogram |-> <<>>, centroids |-> <<>>, iter |-> 0, labels |-> <<>>,
     visited |-> {}, found |-> <<>>, segments |-> <<>>]

(***************************************************************************)
(* Constants of the program.                                               *)
(***************************************************************************)
DEFAULT_PEN_SIZE == 5

INITIAL_SETTINGS ==
    [penSize |-> DEFAULT_PEN_SIZE, invertMask |-> FALSE, borderSize |-> 0, feather |-> 0]

INITIAL_HISTORY == [smartSegments |-> <<>>, manualPaths |-> <<>>]

\* The number of palette colours (SMART_MASK_COLORS.length).
NumColors == 8

(***************************************************************************)
(* The segments a segmentation run returns.                                *)
(***************************************************************************)
\* A closed square boundary, as simplifyPoints leaves it (first = last).
Square(lo, hi) == <<Pt(lo, lo), Pt(hi, lo), Pt(hi, hi), Pt(lo, hi), Pt(lo, lo)>>

\* The boundary of the k-th segment of a run (k from 0): nested regions, the
\* first found by the raster scan enclosing the later ones.
Boundary(k) == Square(2 * k, 16 - 2 * k)

\* The initial value of a segment's selected flag.
NewSegmentSelected == FALSE

\* One segment as pushed by the run for image img (segmentIdCounter = k before
\* the push).  The id `seg-${Date.now()}-${k}` is the pair <<img, k>>: the
\* image stands for the run's timestamp.
NewSegment(img, k) ==
    [id |-> <<img, k>>,
     color |-> (k + 1) % NumColors,
     path |-> [points |-> Boundary(k), tool |-> "smart", brushSize |-> 0],
     selected |-> NewSegmentSelected]

\* What mockPanopticSegmentation may resolve to for image img: the k-means
\* initialisation is random, so the number of regions found is not determined.
SegmenterOutputs(img) ==
    { [k \in 1..n |-> NewSegment(img, k - 1)] : n \in 0..MaxSegs }

(***************************************************************************)
(* History (App.tsx:89-113).                                               *)
(***************************************************************************)
currentState == history[historyIndex + 1]

PushStateHistoryNoTruncate(newState) == Append(history, newState)

\* history.slice(0, historyIndex + 1) followed by newState.
pushStateHistory(newState) ==
    Append(SubSeq(history, 1, historyIndex + 1), newState)

pushState(newState) ==
    /\ history' = pushStateHistory(newState)
    /\ historyIndex' = Len(pushStateHistory(newState)) - 1

UndoIndexUnguarded == historyIndex - 1

undoIndex == IF historyIndex > 0 THEN historyIndex - 1 ELSE historyIndex

RedoIndexUnguarded == historyIndex + 1

redoIndex == IF historyIndex < Len(history) - 1 THEN historyIndex + 1 ELSE historyIndex

handleUndo ==
    /\ historyIndex' = undoIndex
    /\ UNCHANGED <<history, settings, tool, imageSrc, isLoading, pending, downloaded, segRun>>
    /\ UNCHANGED canvasVars

handleRedo ==
    /\ historyIndex' = redoIndex
    /\ UNCHANGED <<history, settings, tool, imageSrc, isLoading, pending, downloaded, segRun>>
    /\ UNCHANGED canvasVars

HandleResetWithSettings ==
    /\ history' = <<INITIAL_HISTORY>>
    /\ historyIndex' = 0
    /\ imageSrc' = 0
    /\ imageObj' = IF imageSrc # 0 THEN 0 ELSE imageObj
    /\ settings' = INITIAL_SETTINGS
    /\ UNCHANGED <<tool, isLoading, pending, downloaded, segRun>>
    /\ UNCHANGED <<imgLoading, isDrawing, currentPoints, isPanning>>

HandleResetCursorOnly ==
    /\ historyIndex' = 0
    /\ imageSrc' = 0
    /\ imageObj' = IF imageSrc # 0 THEN 0 ELSE imageObj
    /\ UNCHANGED <<history, settings, tool, isLoading, pending, downloaded, segRun>>
    /\ UNCHANGED <<imgLoading, isDrawing, currentPoints, isPanning>>

\* setImageSrc(null) re-runs the image effect of CanvasWorkspace
\* (CanvasWorkspace.tsx:53-65), which clears imageObj.
handleReset ==
    /\ history' = <<INITIAL_HISTORY>>
    /\ historyIndex' = 0
    /\ imageSrc' = 0
    /\ imageObj' = IF imageSrc # 0 THEN 0 ELSE imageObj
    /\ UNCHANGED <<settings, tool, isLoading, pending, downloaded, segRun>>
    /\ UNCHANGED <<imgLoading, isDrawing, currentPoints, isPanning>>

(***************************************************************************)
(* Image load and segmentation runs (App.tsx:117-185).                     *)
(***************************************************************************)
\* The part of startSegmentation before its await: clear the history, show
\* the loading state, start the run.
startSegmentation(img) ==
    /\ Len(pending) < MaxPending
    /\ history' = <<INITIAL_HISTORY>>
    /\ historyIndex' = 0
    /\ isLoading' = TRUE
    /\ pending' = Append(pending, img)

\* img.onload of handleImageUpload (App.tsx:127-159) for the data URL img.
\* ctxOk: whether the temporary canvas yields a 2d context (App.tsx:153-154).
\* A changed imageSrc re-runs the image effect of CanvasWorkspace
\* (CanvasWorkspace.tsx:53-61), which starts loading the new image.
handleImageUpload(img, ctxOk) ==
    /\ imageSrc' = img
    /\ imgLoading' = IF imageSrc # img THEN imgLoading \cup {img} ELSE imgLoading
    /\ IF ctxOk
         THEN startSegmentation(img)
         ELSE UNCHANGED <<history, historyIndex, isLoading, pending>>
    /\ UNCHANGED <<settings, tool, downloaded, segRun>>
    /\ UNCHANGED <<imageObj, isDrawing, currentPoints, isPanning>>

\* The snapshot startSegmentation installs for the segments of a run.
runState(segments) == [smartSegments |-> segments, manualPaths |-> <<>>]

RunHistoryAppending(segments) == Append(history, runState(segments))

runHistory(segments) == <<runState(segments)>>

\* The continuation of startSegmentation after the await resolves
\* (App.tsx:174-179, 183).  Every run first waits for a timer of the same
\* delay (CanvasWorkspace.tsx:620) and then computes without yielding, so the
\* runs resolve in the order they were started.
segmentationResolved(segments) ==
    /\ pending # <<>>
    /\ segments \in SegmenterOutputs(Head(pending))
    /\ history' = runHistory(segments)
    /\ historyIndex' = 0
    /\ isLoading' = FALSE
    /\ pending' = Tail(pending)
    /\ UNCHANGED <<settings, tool, imageSrc, downloaded, segRun>>
    /\ UNCHANGED canvasVars

\* The run throws: catch (App.tsx:180-181) and finally (App.tsx:183).
segmentationRejected ==
    /\ pending # <<>>
    /\ isLoading' = FALSE
    /\ pending' = Tail(pending)
    /\ UNCHANGED <<history, historyIndex, settings, tool, imageSrc, downloaded, segRun>>
    /\ UNCHANGED canvasVars

(***************************************************************************)
(* Edits (App.tsx:187-212).                                                *)
(***************************************************************************)
CommittedPathsPrepending(path) == <<path>> \o currentState.manualPaths

committedPaths(path) == Append(currentState.manualPaths, path)

handleCommitManualPath(path) ==
    pushState([currentState EXCEPT !.manualPaths = committedPaths(path)])

ToggledSegmentsAll(segmentId) ==
    [i \in DOMAIN currentState.smartSegments |->
        [currentState.smartSegments[i] EXCEPT !.selected = ~@]]

toggledSegments(segmentId) ==
    [i \in DOMAIN currentState.smartSegments |->
        IF currentState.smartSegments[i].id = segmentId
          THEN [currentState.smartSegments[i] EXCEPT !.selected = ~@]
          ELSE currentState.smartSegments[i]]

HandleToggleInPlace(segmentId) ==
    /\ history' = Append([SubSeq(history, 1, historyIndex + 1) EXCEPT
                              ![historyIndex + 1].smartSegments = toggledSegments(segmentId)],
                         [currentState EXCEPT !.smartSegments = toggledSegments(segmentId)])
    /\ historyIndex' = historyIndex + 1

handleToggleSmartSegment(segmentId) ==
    pushState([currentState EXCEPT !.smartSegments = toggledSegments(segmentId)])

SettingValues(key) ==
    CASE key = "penSize" -> PenSizes
      [] key = "borderSize" -> BorderSizes
      [] key = "feather" -> Feathers
      [] key = "invertMask" -> BOOLEAN

SettingKeys == {"penSize", "borderSize", "feather", "invertMask"}

updatedSettings(key, value) == [settings EXCEPT ![key] = value]

updateSetting(key, value) ==
    /\ settings' = updatedSettings(key, value)
    /\ UNCHANGED <<history, historyIndex, tool, imageSrc, isLoading, pending, downloaded, segRun>>
    /\ UNCHANGED canvasVars

\* The range of a SliderControl (App.tsx:278-312).
sliderMin(key) == IF key = "penSize" THEN 1 ELSE 0

sliderMax(key) == IF key = "penSize" THEN 100 ELSE 20

SliderKeys == {"penSize", "borderSize", "feather"}

\* Number(e.target.value) of the number field (SliderControl.tsx:30).
numberFieldValue(key, value) == value

\* The number field of a SliderControl: the number typed is handed on.
numberFieldChange(key, value) == updateSetting(key, numberFieldValue(key, value))

\* The arrow buttons of a SliderControl (SliderControl.tsx:36-37).
arrowUp(key) ==
    IF settings[key] < sliderMax(key)
      THEN updateSetting(key, settings[key] + 1)
      ELSE UNCHANGED vars

arrowDown(key) ==
    IF settings[key] > sliderMin(key)
      THEN updateSetting(key, settings[key] - 1)
      ELSE UNCHANGED vars

\* The tool palette (App.tsx:341-360).
setTool(t) ==
    /\ tool' = t
    /\ UNCHANGED <<history, historyIndex, settings, imageSrc, isLoading, pending, downloaded, segRun>>
    /\ UNCHANGED canvasVars

(***************************************************************************)
(* CanvasWorkspace: image load and pointer handlers.                       *)
(***************************************************************************)
\* img.onload of the image effect (CanvasWorkspace.tsx:58-61).
imageEffectOnload(img) ==
    /\ img \in imgLoading
    /\ imageObj' = img
    /\ imgLoading' = imgLoading \ {img}
    /\ UNCHANGED appVars
    /\ UNCHANGED <<isDrawing, currentPoints, isPanning>>

\* ctx.isPointInPath(path, pos.x, pos.y) for the closed path through points
\* (CanvasWorkspace.tsx:461-467): the non-zero winding rule.  IsLeft > 0 iff
\* pos lies to the left of the directed edge a -> b.
IsLeft(a, b, pos) == (b.x - a.x) * (pos.y - a.y) - (pos.x - a.x) * (b.y - a.y)

EdgeEnd(points, i) == points[(i % Len(points)) + 1]

Winding(points, pos) ==
    Cardinality({i \in DOMAIN points :
                    /\ points[i].y <= pos.y
                    /\ EdgeEnd(points, i).y > pos.y
                    /\ IsLeft(points[i], EdgeEnd(points, i), pos) > 0})
    - Cardinality({i \in DOMAIN points :
                    /\ points[i].y > pos.y
                    /\ EdgeEnd(points, i).y <= pos.y
                    /\ IsLeft(points[i], EdgeEnd(points, i), pos) < 0})

isPointInPath(points, pos) == Winding(points, pos) # 0

\* The indices (1-based) of the segments a click at pos hits
\* (CanvasWorkspace.tsx:459-471).
HitSegments(pos) ==
    {i \in DOMAIN currentState.smartSegments :
        /\ Len(currentState.smartSegments[i].path.points) > 0
        /\ isPointInPath(currentState.smartSegments[i].path.points, pos)}

SetMax(S) == CHOOSE m \in S : \A n \in S : n <= m

HitSegmentLowest(pos) == CHOOSE m \in HitSegments(pos) : \A n \in HitSegments(pos) : m <= n

\* The loop runs from the last segment down and stops at the first hit.
hitSegment(pos) == SetMax(HitSegments(pos))

\* panGesture: e.button === 1 || isSpacePressed (tool is never 'pan').
handleMouseDown(pos, panGesture) ==
    /\ imageObj # 0
    /\ ~isLoading
    /\ IF panGesture
         THEN /\ isPanning' = TRUE
              /\ UNCHANGED <<history, historyIndex, isDrawing, currentPoints>>
         ELSE IF tool = "smart"
           THEN /\ HitSegments(pos) # {}
                /\ historyIndex + 2 <= MaxHist
                /\ handleToggleSmartSegment(currentState.smartSegments[hitSegment(pos)].id)
                /\ UNCHANGED <<isDrawing, currentPoints, isPanning>>
           ELSE /\ isDrawing' = TRUE
                /\ currentPoints' = <<pos>>
                /\ UNCHANGED <<history, historyIndex, isPanning>>
    /\ UNCHANGED <<settings, tool, imageSrc, isLoading, pending, imageObj, imgLoading,
                   downloaded, segRun>>

\* While panning only the viewport transform changes.
handleMouseMove(pos) ==
    /\ ~isPanning
    /\ isDrawing
    /\ tool # "smart"
    /\ Len(currentPoints) < MaxPts
    /\ currentPoints' = Append(currentPoints, pos)
    /\ UNCHANGED appVars
    /\ UNCHANGED <<imageObj, imgLoading, isDrawing, isPanning>>

\* The path handed to onCommitPath (CanvasWorkspace.tsx:510); its id, a
\* timestamp nothing reads, is left out.
strokePath == [points |-> currentPoints, tool |-> tool, brushSize |-> settings.penSize]

MouseUpCommitsAny == TRUE

\* Whether a pointer release that ends a drag commits the stroke
\* (CanvasWorkspace.tsx:504-511).
mouseUpCommits == Len(currentPoints) >= 2 /\ tool # "smart"

handleMouseUp ==
    IF isPanning
      THEN /\ isPanning' = FALSE
           /\ UNCHANGED appVars
           /\ UNCHANGED <<imageObj, imgLoading, isDrawing, currentPoints>>
      ELSE /\ isDrawing
           /\ isDrawing' = FALSE
           /\ currentPoints' = <<>>
           /\ IF mouseUpCommits
                THEN /\ historyIndex + 2 <= MaxHist
                     /\ handleCommitManualPath(strokePath)
                ELSE UNCHANGED <<history, historyIndex>>
           /\ UNCHANGED <<settings, tool, imageSrc, isLoading, pending, downloaded, segRun>>
           /\ UNCHANGED <<imageObj, imgLoading, isPanning>>

\* onMouseLeave (CanvasWorkspace.tsx:523).
handleMouseLeave ==
    /\ isDrawing' = FALSE
    /\ isPanning' = FALSE
    /\ UNCHANGED appVars
    /\ UNCHANGED <<imageObj, imgLoading, currentPoints>>

\* handleKeyUp for the space bar (CanvasWorkspace.tsx:97-102).
handleKeyUp ==
    /\ isPanning' = FALSE
    /\ UNCHANGED appVars
    /\ UNCHANGED <<imageObj, imgLoading, isDrawing, currentPoints>>

(***************************************************************************)
(* The mask compositor and export (CanvasWorkspace.tsx:112-222, 570-609).  *)
(* A canvas is sampled at the points Pixels; each sample holds the alpha   *)
(* of the canvas there, 0..Opaque.  Shapes are taken geometrically, so the *)
(* partial coverage of antialiased edge pixels is not represented.         *)
(***************************************************************************)
\* The alpha of '#FFFFFF' and '#000000'.
Opaque == 255

\* The alpha of every palette colour, rgba(..., 0.6), in 8 bits.
SegmentColorAlpha == 153

\* canvasSize (App.tsx:81), handed down as width and height.
canvasSize == [width |-> 32, height |-> 32]

\* The sample points of a canvas.
Pixels == {Pt(5, 5), Pt(9, 9), Pt(1, 1), Pt(15, 9), Pt(18, 18), Pt(30, 30)}

\* The props smartSegments and manualPaths of CanvasWorkspace.
SmartSegmentsPropTop == history[Len(history)].smartSegments

smartSegmentsProp == currentState.smartSegments

manualPathsProp == currentState.manualPaths

\* The alpha left at a pixel of alpha ad by drawing alpha as over it.
blend(composite, as, ad) ==
    IF composite = "source-over"
      THEN as + (ad * (Opaque - as)) \div Opaque
      ELSE (ad * (Opaque - as)) \div Opaque       \* destination-out

DistSq(a, b) == (a.x - b.x) * (a.x - b.x) + (a.y - b.y) * (a.y - b.y)

\* Whether p lies within w/2 of the line from a to b (round caps and joins).
NearEdge(a, b, w, p) ==
    LET t == (p.x - a.x) * (b.x - a.x) + (p.y - a.y) * (b.y - a.y)
    IN  IF t <= 0 THEN 4 * DistSq(p, a) <= w * w
        ELSE IF t >= DistSq(a, b) THEN 4 * DistSq(p, b) <= w * w
        ELSE 4 * IsLeft(a, b, p) * IsLeft(a, b, p) <= w * w * DistSq(a, b)

\* Whether ctx.stroke() with lineWidth w paints p; closed: after closePath.
strokeCovers(points, w, closed, p) ==
    \E i \in 1..(Len(points) - (IF closed THEN 0 ELSE 1)) :
        NearEdge(points[i], EdgeEnd(points, i), w, p)

\* ctx.lineWidth = w: zero and negative values are ignored, which leaves the
\* width of a fresh context, 1.
lineWidth(w) == IF w > 0 THEN w ELSE 1

\* drawPolygon at pixel p of alpha a.
drawPolygon(points, fill, colorAlpha, strokeWidth, composite, p, a) ==
    IF Len(points) < 2 THEN a
    ELSE LET filled == IF fill /\ isPointInPath(points, p)
                         THEN blend(composite, colorAlpha, a) ELSE a
         IN  IF strokeWidth > 0 /\ strokeCovers(points, lineWidth(strokeWidth), TRUE, p)
               THEN blend(composite, colorAlpha, filled) ELSE filled

DrawStrokeNoLengthTest(points, width, colorAlpha, composite, p, a) ==
    IF points # <<>> /\ strokeCovers(points, lineWidth(width), TRUE, p)
      THEN blend(composite, colorAlpha, a) ELSE a

\* drawStroke at pixel p of alpha a.
drawStroke(points, width, colorAlpha, composite, p, a) ==
    IF Len(points) < 2 THEN a
    ELSE IF strokeCovers(points, lineWidth(width), FALSE, p)
      THEN blend(composite, colorAlpha, a) ELSE a

Max(m, n) == IF m >= n THEN m ELSE n

EffectiveSizeUnfloored(path, opts) ==
    IF opts.borderSize > 0
      THEN IF path.tool = "subtract"
             THEN path.brushSize - opts.borderSize * 2
             ELSE path.brushSize + opts.borderSize * 2
      ELSE path.brushSize

\* The width a manual path is stroked with (CanvasWorkspace.tsx:158-165).
effectiveSize(path, opts) ==
    IF opts.borderSize > 0
      THEN IF path.tool = "subtract"
             THEN Max(1, path.brushSize - opts.borderSize * 2)
             ELSE path.brushSize + opts.borderSize * 2
      ELSE path.brushSize

\* One selected segment drawn with colour alpha colorAlpha
\* (CanvasWorkspace.tsx:146-151, 173-178).
drawSegment(seg, opts, colorAlpha, p, a) ==
    IF seg.selected
      THEN LET filled == drawPolygon(seg.path.points, TRUE, colorAlpha, 0, "source-over", p, a)
           IN  IF opts.borderSize > 0
                 THEN drawPolygon(seg.path.points, FALSE, colorAlpha,
                                  opts.borderSize * 2, "source-over", p, filled)
                 ELSE filled
      ELSE a

\* segments.forEach (CanvasWorkspace.tsx:145-152, 172-179).
RECURSIVE drawSegments(_, _, _, _, _)
drawSegments(segments, opts, colorAlpha, p, a) ==
    IF segments = <<>> THEN a
    ELSE drawSegments(Tail(segments), opts, colorAlpha, p,
                      drawSegment(Head(segments), opts, colorAlpha, p, a))

DrawPathAlwaysAdding(path, opts, p, a) ==
    drawStroke(path.points, effectiveSize(path, opts), Opaque, "source-over", p, a)

\* One manual path drawn (CanvasWorkspace.tsx:156-167, 182-192).
drawPath(path, opts, p, a) ==
    drawStroke(path.points, effectiveSize(path, opts), Opaque,
               IF path.tool = "subtract" THEN "destination-out" ELSE "source-over", p, a)

\* paths.forEach (CanvasWorkspace.tsx:155-168, 181-193).
RECURSIVE drawPaths(_, _, _, _)
drawPaths(paths, opts, p, a) ==
    IF paths = <<>> THEN a
    ELSE drawPaths(Tail(paths), opts, p, drawPath(Head(paths), opts, p, a))

OnCanvas(p) ==
    /\ 0 <= p.x /\ p.x < canvasSize.width
    /\ 0 <= p.y /\ p.y < canvasSize.height

CompositeUncleared(segments, paths, opts, p) ==
    drawPaths(paths, opts, p,
        drawSegments(segments, opts, Opaque, p,
            drawPaths(paths, opts, p,
                drawSegments(segments, opts, SegmentColorAlpha, p, Opaque))))

CompositeSegmentsLast(segments, paths, opts, p) ==
    drawSegments(segments, opts, Opaque, p,
        drawPaths(paths, opts, p,
            drawSegments(segments, opts, SegmentColorAlpha, p, 0)))

\* The four passes over the cleared canvas (CanvasWorkspace.tsx:144-193): the
\* segments in their colours, the paths, the segments in white, the paths.
composite(segments, paths, opts, p) ==
    drawPaths(paths, opts, p,
        drawSegments(segments, opts, Opaque, p,
            drawPaths(paths, opts, p,
                drawSegments(segments, opts, SegmentColorAlpha, p, 0))))

\* The canvas before feather and inversion; nothing lies outside the canvas.
canvasAlpha(segments, paths, opts, p) ==
    IF OnCanvas(p) THEN composite(segments, paths, opts, p) ELSE 0

\* blur(feather px) (CanvasWorkspace.tsx:195-206): a weighted mean of the
\* canvas around p, sampled here at p and the four points feather away.
blurred(segments, paths, opts, p) ==
    ( canvasAlpha(segments, paths, opts, p)
    + canvasAlpha(segments, paths, opts, Pt(p.x - opts.feather, p.y))
    + canvasAlpha(segments, paths, opts, Pt(p.x + opts.feather, p.y))
    + canvasAlpha(segments, paths, opts, Pt(p.x, p.y - opts.feather))
    + canvasAlpha(segments, paths, opts, Pt(p.x, p.y + opts.feather)) ) \div 5

InvertedKeeping(a) == a

\* A white canvas with the mask cut out of it (CanvasWorkspace.tsx:208-220).
inverted(a) == blend("destination-out", a, Opaque)

renderMaskComposite(segments, paths, opts) ==
    [p \in Pixels |->
        LET c == IF opts.feather > 0
                   THEN blurred(segments, paths, opts, p)
                   ELSE canvasAlpha(segments, paths, opts, p)
        IN  IF opts.invertMask THEN inverted(c) ELSE c]

\* A pixel of the exported canvas: the image it came from and its alpha.
Transparent == [image |-> 0, alpha |-> 0]

\* ctx.drawImage(imageObj, ...): the pixels of a loaded image are opaque.
sourcePixel(img) == [image |-> img, alpha |-> Opaque]

\* 'destination-in': the pixel keeps the share of its alpha that the mask has.
destinationIn(pixel, maskAlpha) ==
    IF (pixel.alpha * maskAlpha) \div Opaque = 0
      THEN Transparent
      ELSE [pixel EXCEPT !.alpha = (pixel.alpha * maskAlpha) \div Opaque]

ExportNeverNull(ctxOk) == FALSE

\* Whether exportImage returns null (CanvasWorkspace.tsx:114, 120).
exportImageIsNull(ctxOk) == imageObj = 0 \/ ~ctxOk

\* The canvas exportImage turns into a blob (CanvasWorkspace.tsx:116-133).
exportImage ==
    [p \in Pixels |->
        destinationIn(sourcePixel(imageObj),
                      renderMaskComposite(smartSegmentsProp, manualPathsProp, settings)[p])]

\* The export button (App.tsx:415-422, shown when imageSrc is set) and
\* handleExport (App.tsx:221-235).
handleExport(ctxOk) ==
    /\ imageSrc # 0
    /\ IF exportImageIsNull(ctxOk)
         THEN UNCHANGED downloaded
         ELSE /\ Len(downloaded) < MaxDownloads
              /\ downloaded' = Append(downloaded, exportImage)
    /\ UNCHANGED <<history, historyIndex, settings, tool, imageSrc, isLoading, pending, segRun>>
    /\ UNCHANGED canvasVars

(***************************************************************************)
(* The segmenter: mockPanopticSegmentation (CanvasWorkspace.tsx:618-786)   *)
(* with traceBoundary and simplifyPoints (CanvasWorkspace.tsx:791-915).    *)
(* A pixel is its <<r, g, b>>; the alpha byte is copied by the             *)
(* downsampling and read by nothing.  A grid is a function on the indices  *)
(* 0 .. n-1 in row-major order.                                            *)
(***************************************************************************)
\* The largest dimension of the working grid.
MaxDimension == 150

\* The number of clusters.
K == 8

\* The number of k-means passes.
iterations == 4

\* The distance simplifyPoints is called with.
tolerance == 2

\* Fractions: the scale is kept exact.
Frac(n, d) == [num |-> n, den |-> d]

\* Math.min of two fractions.
MinFrac(a, b) == IF a.num * b.den <= b.num * a.den THEN a ELSE b

ScaleUnclamped(width, height) ==
    MinFrac(Frac(MaxDimension, width), Frac(MaxDimension, height))

\* scale = Math.min(150 / width, 150 / height, 1).
scaleOf(width, height) ==
    MinFrac(Frac(1, 1), MinFrac(Frac(MaxDimension, width), Frac(MaxDimension, height)))

\* Math.floor(n * scale) and Math.floor(n / scale).
floorTimes(n, scale) == (n * scale.num) \div scale.den
floorOver(n, scale) == (n * scale.den) \div scale.num

\* The nearest-neighbour copy into the working grid.
downsampled(imageData, scale, w, h) ==
    [i \in 0..(w * h - 1) |->
        imageData.data[floorOver(i \div w, scale) * imageData.width + floorOver(i % w, scale)]]

\* The colours of a grid.
Colours(pixels) == {pixels[i] : i \in DOMAIN pixels}

\* One pixel index for each colour of the histogram hist of pixels: which
\* pixel of a colour the random pick returns makes no difference to the
\* centroid.
Representatives(pixels, hist) ==
    {(CHOOSE i \in DOMAIN pixels : pixels[i] = col) : col \in DOMAIN hist}

\* A centroid is the exact mean sums / count of its cluster, in lowest terms.
RECURSIVE Gcd(_, _)
Gcd(a, b) == IF b = 0 THEN a ELSE Gcd(b, a % b)

centroidOf(sums, count) ==
    LET g == Gcd(Gcd(Gcd(count, sums[1]), sums[2]), sums[3])
    IN  [sums |-> <<sums[1] \div g, sums[2] \div g, sums[3] \div g>>, count |-> count \div g]

\* dr*dr + dg*dg + db*db for the pixel col and the centroid cen, times
\* cen.count squared.
distTimesCountSq(col, cen) ==
    LET d(j) == col[j] * cen.count - cen.sums[j]
    IN  d(1) * d(1) + d(2) * d(2) + d(3) * d(3)

\* dist(col, a) < dist(col, b).
nearer(col, a, b) ==
    distTimesCountSq(col, a) * b.count * b.count < distTimesCountSq(col, b) * a.count * a.count

BestClusterLast(col, centroids) ==
    CHOOSE k \in DOMAIN centroids :
        \A j \in DOMAIN centroids : ~nearer(col, centroids[j], centroids[k]) /\ (j > k => nearer(col, centroids[k], centroids[j]))

\* The loop over k with the test dist < minDist: the lowest index among the
\* nearest centroids.
bestCluster(col, centroids) ==
    CHOOSE k \in DOMAIN centroids :
        \A j \in DOMAIN centroids :
            /\ j < k => nearer(col, centroids[k], centroids[j])
            /\ j > k => ~nearer(col, centroids[j], centroids[k])

\* The function f on the finite set S as an explicit table.
RECURSIVE tabulated(_, _)
tabulated(f, S) ==
    IF S = {} THEN <<>>
    ELSE LET one == CHOOSE e \in S : TRUE IN (one :> f[one]) @@ tabulated(f, S \ {one})

\* The sum of the j-th components of g over the colours in S.
RECURSIVE SumOver(_, _, _)
SumOver(S, g, j) ==
    IF S = {} THEN 0
    ELSE LET one == CHOOSE col \in S : TRUE IN g[one][j] + SumOver(S \ {one}, g, j)

\* How many pixels of the grid have each of its colours.
histogram(pixels) ==
    tabulated([col \in Colours(pixels) |-> Cardinality({i \in DOMAIN pixels : pixels[i] = col})],
              Colours(pixels))

\* One pass: labels, and the centroids of the clusters that got a pixel.  The
\* pixel loop is evaluated once per colour: pixels of one colour get the
\* same label, and add the same amounts to sums and counts.  hist is the
\* histogram of the pixels, and the labels array is kept as the label of
\* each colour: labels[i] is the label of the colour of pixel i.
kmeansLabels(hist, centroids) ==
    tabulated([col \in DOMAIN hist |-> bestCluster(col, centroids)], DOMAIN hist)

CentroidsKept(hist, centroids) == centroids

kmeansCentroids(hist, centroids) ==
    LET best == kmeansLabels(hist, centroids)
        weighted == tabulated([col \in DOMAIN hist |->
                                  <<col[1] * hist[col], col[2] * hist[col], col[3] * hist[col],
                                    hist[col]>>], DOMAIN hist)
    IN  [k \in DOMAIN centroids |->
            LET mine == {col \in DOMAIN hist : best[col] = k}
                counts == SumOver(mine, weighted, 4)
            IN  IF counts > 0
                  THEN centroidOf(<<SumOver(mine, weighted, 1), SumOver(mine, weighted, 2),
                                    SumOver(mine, weighted, 3)>>, counts)
                  ELSE centroids[k]]

\* The first index the raster scan finds unvisited.
firstUnvisited(visited, w, h) ==
    LET rowHas(y) == \E x \in 0..(w - 1) : (y * w + x) \notin visited
        y0 == CHOOSE y \in 0..(h - 1) : rowHas(y) /\ \A y2 \in 0..(y - 1) : ~rowHas(y2)
        x0 == CHOOSE x \in 0..(w - 1) :
                  /\ (y0 * w + x) \notin visited
                  /\ \A x2 \in 0..(x - 1) : (y0 * w + x2) \in visited
    IN  y0 * w + x0

\* n % w of JavaScript: the sign of the result is the sign of n.
jsRem(n, w) == IF n >= 0 THEN n % w ELSE 0 - ((0 - n) % w)

\* The bounds test of the component search, on nx = n % w and
\* ny = Math.floor(n / w).
inGrid(n, w, h) ==
    /\ jsRem(n, w) >= 0 /\ jsRem(n, w) < w
    /\ (n \div w) >= 0 /\ (n \div w) < h

\* Left, right, top, bottom.
neighbors(curr, w) == {curr - 1, curr + 1, curr - w, curr + w}

\* The pixels the queue receives from the pixels of frontier.
nextGeneration(frontier, seen, visited, labels, w, h, clusterId) ==
    {n \in UNION {neighbors(curr, w) : curr \in frontier} :
        /\ inGrid(n, w, h)
        /\ n \notin visited /\ n \notin seen
        /\ labels[n] = clusterId}

\* The queue loop, a generation of the queue at a time: q.frontier are the
\* pixels not yet taken from the queue, q.seen the pixels pushed so far.
queueTurn(q, visited, labels, w, h, clusterId) ==
    LET next == nextGeneration(q.frontier, q.seen, visited, labels, w, h, clusterId)
    IN  [frontier |-> next, seen |-> q.seen \cup next]

\* Up to `turns` generations.  Long loops are evaluated 64 turns at a time.
RECURSIVE queueTurns(_, _, _, _, _, _, _)
queueTurns(q, turns, visited, labels, w, h, clusterId) ==
    IF q.frontier = {} \/ turns = 0 THEN q
    ELSE queueTurns(queueTurn(q, visited, labels, w, h, clusterId), turns - 1,
                    visited, labels, w, h, clusterId)

RECURSIVE queueLoop(_, _, _, _, _, _)
queueLoop(q, visited, labels, w, h, clusterId) ==
    IF q.frontier = {} THEN q
    ELSE queueLoop(queueTurns(q, 64, visited, labels, w, h, clusterId),
                   visited, labels, w, h, clusterId)

\* The breadth-first search from idx (CanvasWorkspace.tsx:714-753).
componentPixels(idx, visited, labels, w, h, clusterId) ==
    queueLoop([frontier |-> {idx}, seen |-> {idx}], visited, labels, w, h, clusterId).seen

\* componentPixels.length < pixelCount * 0.005.
isNoise(length, pixelCount) == length * 1000 < pixelCount * 5

\* N, NE, E, SE, S, SW, W, NW.
dirs ==
    [i \in 0..7 |->
        <<Pt(0, -1), Pt(1, -1), Pt(1, 0), Pt(1, 1), Pt(0, 1), Pt(-1, 1), Pt(-1, 0), Pt(-1, -1)>>[i + 1]]

Moved(b, i) == Pt(b.x + dirs[i].x, b.y + dirs[i].y)

\* The direction of c seen from b; West when c is no neighbour of b.
dirIdxOf(b, c) ==
    IF \E i \in 0..7 : Moved(b, i) = c
      THEN CHOOSE i \in 0..7 : Moved(b, i) = c
      ELSE 6

isInside(p, labels, w, h, targetLabel) ==
    /\ p.x >= 0 /\ p.x < w /\ p.y >= 0 /\ p.y < h
    /\ labels[p.y * w + p.x] = targetLabel

\* The offsets i of the clockwise scan from b that meet a pixel of the label.
scanHits(b, c, labels, w, h, targetLabel) ==
    {i \in 0..7 : isInside(Moved(b, (dirIdxOf(b, c) + 1 + i) % 8), labels, w, h, targetLabel)}

MaxStepsPlusOne(w, h) == w * h + 1

maxSteps(w, h) == w * h

BacktrackOpposite(b, nextDirIdx) == Moved(b, (nextDirIdx + 4) % 8)

\* The backtrack pointer after a move from b in direction nextDirIdx: the
\* neighbour of b scanned just before (CanvasWorkspace.tsx:875-876).
backtrack(b, nextDirIdx) ==
    LET prevDirIdx == (nextDirIdx + 7) % 8
    IN  Moved(b, prevDirIdx)

\* The state of the walk before its first turn (CanvasWorkspace.tsx:825-835).
traceStart(startPixel) ==
    [b |-> startPixel, c |-> Pt(startPixel.x - 1, startPixel.y), steps |-> 0,
     points |-> <<>>, ended |-> FALSE]

\* One turn of the do-while loop of traceBoundary: t.ended says that the loop
\* has been left.
traceTurn(t, startPixel, labels, w, h, targetLabel) ==
    LET hits == scanHits(t.b, t.c, labels, w, h, targetLabel)
        nextDirIdx == (dirIdxOf(t.b, t.c) + 1 + (CHOOSE i \in hits : \A j \in hits : i <= j)) % 8
    IN  IF hits = {}
          THEN [t EXCEPT !.points = Append(@, t.b), !.ended = TRUE]
          ELSE [b |-> Moved(t.b, nextDirIdx),
                c |-> backtrack(t.b, nextDirIdx),
                steps |-> t.steps + 1,
                points |-> Append(t.points, t.b),
                ended |-> ~(Moved(t.b, nextDirIdx) # startPixel
                            /\ t.steps + 1 < maxSteps(w, h))]

RECURSIVE traceTurns(_, _, _, _, _, _, _)
traceTurns(t, turns, startPixel, labels, w, h, targetLabel) ==
    IF t.ended \/ turns = 0 THEN t
    ELSE traceTurns(traceTurn(t, startPixel, labels, w, h, targetLabel), turns - 1,
                    startPixel, labels, w, h, targetLabel)

RECURSIVE traceLoop(_, _, _, _, _, _)
traceLoop(t, startPixel, labels, w, h, targetLabel) ==
    IF t.ended THEN t
    ELSE traceLoop(traceTurns(traceTurn(t, startPixel, labels, w, h, targetLabel), 63,
                              startPixel, labels, w, h, targetLabel),
                   startPixel, labels, w, h, targetLabel)

traceBoundary(labels, w, h, startIdx, targetLabel) ==
    LET startPixel == Pt(startIdx % w, startIdx \div w)
    IN  traceLoop(traceStart(startPixel), startPixel, labels, w, h, targetLabel).points

\* p / scale on both coordinates; the images of the inputs have a scale
\* whose inverse is a whole number, so the quotient is exact.
originalPoints(pathPoints, scale) ==
    [i \in DOMAIN pathPoints |->
        Pt(floorOver(pathPoints[i].x, scale), floorOver(pathPoints[i].y, scale))]

FartherOrAt(curr, last, tol) ==
    (curr.x - last.x) * (curr.x - last.x) + (curr.y - last.y) * (curr.y - last.y) >= tol * tol

\* Math.sqrt(dx*dx + dy*dy) > tol.
farther(curr, last, tol) ==
    (curr.x - last.x) * (curr.x - last.x) + (curr.y - last.y) * (curr.y - last.y) > tol * tol

\* One turn of the loop of simplifyPoints: s.i points have been dealt with.
simplifyTurn(s, points, tol) ==
    LET curr == points[s.i + 1]
    IN  IF farther(curr, s.last, tol)
          THEN [i |-> s.i + 1, last |-> curr, res |-> Append(s.res, curr)]
          ELSE [s EXCEPT !.i = @ + 1]

RECURSIVE simplifyTurns(_, _, _, _)
simplifyTurns(s, turns, points, tol) ==
    IF s.i >= Len(points) \/ turns = 0 THEN s
    ELSE simplifyTurns(simplifyTurn(s, points, tol), turns - 1, points, tol)

RECURSIVE simplifyLoop(_, _, _)
simplifyLoop(s, points, tol) ==
    IF s.i >= Len(points) THEN s
    ELSE simplifyLoop(simplifyTurns(s, 64, points, tol), points, tol)

ClosedNever(res) == res

\* Close loop if needed.
closed(res) ==
    IF Len(res) > 2 /\ res[1] # res[Len(res)] THEN Append(res, res[1]) ELSE res

simplifyPoints(points, tol) ==
    IF Len(points) <= 2 THEN points
    ELSE closed(simplifyLoop([i |-> 1, last |-> points[1], res |-> <<points[1]>>], points, tol).res)

\* The pixels getImageData returns for the loaded images (App.tsx:153-157).
Red == <<200, 50, 50>>
Black == <<0, 0, 0>>

\* 100 x 100 in one colour with a 20 x 20 black square at (10, 10).
SquareImage ==
    [width |-> 100, height |-> 100,
     data |-> [i \in 0..9999 |->
                  IF (i % 100) \in 10..29 /\ (i \div 100) \in 10..29 THEN Black ELSE Red]]

\* 11 x 6: two 4 x 4 rectangles, at (1, 1) and at (6, 1), on a background
\* whose colour is close to the colour of the second.
TwoRectangles ==
    [width |-> 11, height |-> 6,
     data |-> [i \in 0..65 |->
                  IF (i % 11) \in 1..4 /\ (i \div 11) \in 1..4 THEN <<10, 0, 0>>
                  ELSE IF (i % 11) \in 6..9 /\ (i \div 11) \in 1..4 THEN <<1, 0, 0>>
                  ELSE Black]]

\* 15 x 14 in one colour but for the last pixel of the first row and the
\* first pixel of the second.
EdgePixels ==
    [width |-> 15, height |-> 14,
     data |-> [i \in 0..209 |-> IF i \in {14, 15} THEN <<9, 0, 0>> ELSE Black]]

\* 300 x 3, the left half in one colour and the right half in another.
WideImage ==
    [width |-> 300, height |-> 3,
     data |-> [i \in 0..899 |-> IF (i % 300) < 150 THEN Black ELSE <<9, 0, 0>>]]

\* 3 x 2, the right column in another colour than the rest.
SmallImage ==
    [width |-> 3, height |-> 2,
     data |-> [i \in 0..5 |-> IF i % 3 = 2 THEN <<9, 0, 0>> ELSE Black]]

LoadedImages == <<SquareImage, TwoRectangles, EdgePixels, WideImage, SmallImage>>

getImageData(img) == LoadedImages[img]

\* Every image of the given size in two colours.
TwoColourImages(width, height) ==
    {[width |-> width, height |-> height, data |-> d] :
        d \in [0..(width * height - 1) -> {Black, <<9, 0, 0>>}]}

\* The labels array of the run: the label of pixel i.
pixelLabels == [i \in DOMAIN segRun.pixels |-> segRun.labels[segRun.pixels[i]]]

\* The run of the segmenter on imageData, for the image img, at its first
\* statement after the timer.
started(img, imageData) ==
    [SegIdle EXCEPT !.stage = "start", !.img = img, !.imageData = imageData]

\* A statement of the run changes its locals and nothing else.
segmenterFrame ==
    /\ UNCHANGED <<history, historyIndex, settings, tool, imageSrc, isLoading, pending,
                   downloaded>>
    /\ UNCHANGED canvasVars

\* The timer of the oldest run that has not begun fires (CanvasWorkspace.tsx:620).
timerFired ==
    /\ pending # <<>>
    /\ segRun.stage = "idle"
    /\ segRun' = started(Head(pending), getImageData(Head(pending)))
    /\ segmenterFrame

\* 1. Downsample (CanvasWorkspace.tsx:625-646).
downsample ==
    /\ segRun.stage = "start"
    /\ LET sc == scaleOf(segRun.imageData.width, segRun.imageData.height)
           gw == floorTimes(segRun.imageData.width, sc)
           gh == floorTimes(segRun.imageData.height, sc)
           px == downsampled(segRun.imageData, sc, gw, gh)
       IN  segRun' = [segRun EXCEPT !.stage = "sampled", !.scale = sc, !.w = gw, !.h = gh,
                                    !.pixels = px, !.histogram = histogram(px)]
    /\ segmenterFrame

\* 2. The K random picks (CanvasWorkspace.tsx:649-658).  The first `free`
\* picks are any pixels, the others repeat the last of them.
seedCentroids(free) ==
    /\ segRun.stage = "sampled"
    /\ \E picks \in [0..(K - 1) -> Representatives(segRun.pixels, segRun.histogram)] :
          /\ \A k \in free..(K - 1) : picks[k] = picks[free - 1]
          /\ segRun' = [segRun EXCEPT
                           !.stage = "seeded",
                           !.centroids = [k \in 0..(K - 1) |->
                                             [sums |-> segRun.pixels[picks[k]], count |-> 1]],
                           !.labels = tabulated([col \in DOMAIN segRun.histogram |-> 0],
                                                DOMAIN segRun.histogram)]
    /\ segmenterFrame

\* 3. One pass of the k-means loop (CanvasWorkspace.tsx:662-700).  Nothing
\* reads the centroids the last pass computes: the run forgets them.
kmeansIteration ==
    /\ segRun.stage = "seeded"
    /\ segRun.iter < iterations
    /\ segRun' = [segRun EXCEPT
                     !.iter = @ + 1,
                     !.labels = kmeansLabels(segRun.histogram, segRun.centroids),
                     !.centroids = IF segRun.iter + 1 = iterations
                                     THEN <<>>
                                     ELSE kmeansCentroids(segRun.histogram, segRun.centroids),
                     !.stage = IF segRun.iter + 1 = iterations THEN "clustered" ELSE "seeded"]
    /\ segmenterFrame

\* 4. One turn of the raster scan that meets an unvisited pixel
\* (CanvasWorkspace.tsx:707-782): its component, the noise filter, the
\* boundary, the segment.  scanTurn is the run after that turn.
scanTurn ==
    LET idx == firstUnvisited(segRun.visited, segRun.w, segRun.h)
        clusterId == pixelLabels[idx]
        comp == componentPixels(idx, segRun.visited, pixelLabels, segRun.w, segRun.h, clusterId)
        pathPoints == traceBoundary(pixelLabels, segRun.w, segRun.h, idx, clusterId)
        simplifiedPoints == simplifyPoints(originalPoints(pathPoints, segRun.scale), tolerance)
        segmentIdCounter == Len(segRun.segments)
    IN  IF isNoise(Cardinality(comp), segRun.w * segRun.h)
          THEN [segRun EXCEPT
                   !.visited = @ \cup comp,
                   !.found = Append(@, [start |-> idx, componentPixels |-> comp,
                                        clusterId |-> clusterId, emitted |-> FALSE,
                                        pathPoints |-> <<>>])]
          ELSE [segRun EXCEPT
                   !.visited = @ \cup comp,
                   !.found = Append(@, [start |-> idx, componentPixels |-> comp,
                                        clusterId |-> clusterId, emitted |-> TRUE,
                                        pathPoints |-> pathPoints]),
                   !.segments = Append(@,
                       [NewSegment(segRun.img, segmentIdCounter)
                           EXCEPT !.path.points = simplifiedPoints])]

extractComponent ==
    /\ segRun.stage = "clustered"
    /\ segRun.visited # DOMAIN segRun.pixels
    /\ segRun' = scanTurn
    /\ segmenterFrame

\* return segments (CanvasWorkspace.tsx:785).
returnSegments ==
    /\ segRun.stage = "clustered"
    /\ segRun.visited = DOMAIN segRun.pixels
    /\ segRun' = [segRun EXCEPT !.stage = "done"]
    /\ segmenterFrame

\* The continuation of startSegmentation (App.tsx:174-179, 183) with the
\* segments the run returned.
segmentationReturned ==
    /\ pending # <<>>
    /\ segRun.stage = "done"
    /\ history' = runHistory(segRun.segments)
    /\ historyIndex' = 0
    /\ isLoading' = FALSE
    /\ pending' = Tail(pending)
    /\ segRun' = SegIdle
    /\ UNCHANGED <<settings, tool, imageSrc, downloaded>>
    /\ UNCHANGED canvasVars

ThrewWithoutFinally ==
    /\ pending # <<>>
    /\ segRun.stage # "idle"
    /\ pending' = Tail(pending)
    /\ segRun' = SegIdle
    /\ UNCHANGED <<history, historyIndex, isLoading, settings, tool, imageSrc, downloaded>>
    /\ UNCHANGED canvasVars

\* The run that is computing throws: catch (App.tsx:180-181), which leaves
\* the history as it is, and finally (App.tsx:182-184).
segmentationThrew ==
    /\ pending # <<>>
    /\ segRun.stage # "idle"
    /\ isLoading' = FALSE
    /\ pending' = Tail(pending)
    /\ segRun' = SegIdle
    /\ UNCHANGED <<history, historyIndex, settings, tool, imageSrc, downloaded>>
    /\ UNCHANGED canvasVars

Init ==
    /\ history = <<INITIAL_HISTORY>>
    /\ historyIndex = 0
    /\ settings = INITIAL_SETTINGS
    /\ tool = "smart"
    /\ imageSrc = 0
    /\ isLoading = FALSE
    /\ pending = <<>>
    /\ imageObj = 0
    /\ imgLoading = {}
    /\ isDrawing = FALSE
    /\ currentPoints = <<>>
    /\ isPanning = FALSE
    /\ downloaded = <<>>
    /\ segRun = SegIdle

\* The steps of the session, grouped by the control that takes them.  Each
\* group is given the inputs it draws from.
HistorySteps ==
    \/ handleUndo
    \/ handleRedo
    \/ handleReset

\* images: the images that may be loaded.
RunSteps(images) ==
    \/ \E img \in images, ctxOk \in BOOLEAN : handleImageUpload(img, ctxOk)
    \/ \E segments \in UNION {SegmenterOutputs(img) : img \in images} :
          segmentationResolved(segments)
    \/ segmentationRejected
    \/ \E img \in images : imageEffectOnload(img)

\* keys: the settings that may be changed.
SettingSteps(keys) ==
    \E key \in keys : \E value \in SettingValues(key) : updateSetting(key, value)

\* tools: the tools that may be selected.
ToolSteps(tools) ==
    \E t \in tools : setTool(t)

\* pans: whether a pointer press may be a pan gesture; presses: where the
\* pointer may be pressed.
PointerSteps(pans, presses) ==
    \/ \E pos \in presses, panGesture \in pans : handleMouseDown(pos, panGesture)
    \/ \E pos \in MovePos : handleMouseMove(pos)
    \/ handleMouseUp
    \/ handleMouseLeave
    \/ handleKeyUp

\* The editing session on one image: toggles of either segment and strokes.
Next ==
    \/ HistorySteps
    \/ RunSteps({1})
    \/ ToolSteps(Tools)
    \/ PointerSteps({FALSE}, {Pt(1, 1), Pt(3, 3)})

Spec == Init /\ [][Next]_vars

\* The session with two images, whose segmentation runs overlap.
RunNext ==
    \/ HistorySteps
    \/ RunSteps(Images)
    \/ ToolSteps(Tools)
    \/ PointerSteps({FALSE}, {Pt(3, 3)})

RunSpec == Init /\ [][RunNext]_vars

\* The session with every setting changing, and pan gestures.
SettingsNext ==
    \/ HistorySteps
    \/ RunSteps({1})
    \/ SettingSteps(SettingKeys)
    \/ ToolSteps({"smart", "add"})
    \/ PointerSteps(BOOLEAN, {Pt(3, 3)})

SettingsSpec == Init /\ [][SettingsNext]_vars

\* The session with clicks inside both segments, inside the outer segment
\* only, and outside every segment.
ToggleNext ==
    \/ HistorySteps
    \/ RunSteps({1})
    \/ ToolSteps({"smart", "add"})
    \/ PointerSteps({FALSE}, ClickPos)

ToggleSpec == Init /\ [][ToggleNext]_vars

ExportSteps ==
    \E ctxOk \in BOOLEAN : handleExport(ctxOk)

\* The session with exports of the mask.
ExportNext ==
    \/ HistorySteps
    \/ RunSteps({1})
    \/ SettingSteps({"invertMask"})
    \/ ToolSteps({"smart", "subtract"})
    \/ PointerSteps({FALSE}, {Pt(3, 3)})
    \/ ExportSteps

ExportSpec == Init /\ [][ExportNext]_vars

\* The controls of the three sliders.
\* fieldKeys: the sliders whose number field is used; arrowKeys: the sliders
\* whose arrows are used.
SliderSteps(fieldKeys, arrowKeys) ==
    \/ \E key \in fieldKeys, value \in NumberEntries : numberFieldChange(key, value)
    \/ \E key \in arrowKeys : arrowUp(key)
    \/ \E key \in arrowKeys : arrowDown(key)

SliderNext ==
    \/ SettingSteps(SettingKeys)
    \/ SliderSteps(SliderKeys, {"feather"})

SliderSpec == Init /\ [][SliderNext]_vars

(***************************************************************************)
(* The compositor on its own: a snapshot drawn from the inputs below is    *)
(* exported under every setting of border, feather and inversion.          *)
(***************************************************************************)
\* A segment whose boundary has a single point.
DegenerateSegment ==
    [NewSegment(1, MaxSegs) EXCEPT !.path.points = <<Pt(9, 9)>>, !.selected = TRUE]

SegmentInputs ==
    {[NewSegment(1, 0) EXCEPT !.selected = b] : b \in BOOLEAN}
      \cup {[NewSegment(1, 1) EXCEPT !.selected = TRUE], DegenerateSegment}

PathInputs ==
    {[points |-> <<Pt(3, 3), Pt(5, 5)>>, tool |-> t, brushSize |-> 5] :
        t \in {"add", "subtract"}}
      \cup {[points |-> <<Pt(9, 9)>>, tool |-> "add", brushSize |-> 20],
            [points |-> <<>>, tool |-> "subtract", brushSize |-> 20]}

SeqsUpTo(S, n) == UNION {[1..k -> S] : k \in 0..n}

\* The segments of a snapshot have distinct ids.
SegmentListInputs ==
    {segs \in SeqsUpTo(SegmentInputs, MaxSegs) :
        \A i, j \in DOMAIN segs : segs[i].id = segs[j].id => i = j}

CompositorInit ==
    /\ \E segs \in SegmentListInputs, paths \in SeqsUpTo(PathInputs, MaxHist - 1) :
          history = <<[smartSegments |-> segs, manualPaths |-> paths]>>
    /\ historyIndex = 0
    /\ settings = INITIAL_SETTINGS
    /\ tool = "smart"
    /\ imageSrc = 1
    /\ isLoading = FALSE
    /\ pending = <<>>
    /\ imageObj = 1
    /\ imgLoading = {}
    /\ isDrawing = FALSE
    /\ currentPoints = <<>>
    /\ isPanning = FALSE
    /\ downloaded = <<>>
    /\ segRun = SegIdle

CompositorNext ==
    \/ SettingSteps({"borderSize", "feather", "invertMask"})
    \/ ExportSteps

CompositorSpec == CompositorInit /\ [][CompositorNext]_vars

\* The compositor on manual paths of the thinnest, the default and the widest
\* brush, under every border the slider, its arrows and its number field give.
WidthPathInputs ==
    {[points |-> <<Pt(3, 3), Pt(5, 5)>>, tool |-> t, brushSize |-> b] :
        t \in {"add", "subtract"}, b \in {sliderMin("penSize"), DEFAULT_PEN_SIZE, sliderMax("penSize")}}

WidthInit ==
    /\ \E paths \in SeqsUpTo(WidthPathInputs, MaxHist - 1) :
          history = <<[smartSegments |-> <<>>, manualPaths |-> paths]>>
    /\ historyIndex = 0
    /\ settings = INITIAL_SETTINGS
    /\ tool = "smart"
    /\ imageSrc = 1
    /\ isLoading = FALSE
    /\ pending = <<>>
    /\ imageObj = 1
    /\ imgLoading = {}
    /\ isDrawing = FALSE
    /\ currentPoints = <<>>
    /\ isPanning = FALSE
    /\ downloaded = <<>>
    /\ segRun = SegIdle

WidthNext ==
    \/ SliderSteps({"borderSize"}, {"borderSize"})
    \/ ExportSteps

WidthSpec == WidthInit /\ [][WidthNext]_vars

\* A run of the segmenter by itself: the run for one of the images has
\* reached its first statement.
SegmenterInit(images) ==
    /\ history = <<INITIAL_HISTORY>>
    /\ historyIndex = 0
    /\ settings = INITIAL_SETTINGS
    /\ tool = "smart"
    /\ imageSrc = 0
    /\ isLoading = FALSE
    /\ pending = <<>>
    /\ imageObj = 0
    /\ imgLoading = {}
    /\ isDrawing = FALSE
    /\ currentPoints = <<>>
    /\ isPanning = FALSE
    /\ downloaded = <<>>
    /\ \E imageData \in images : segRun = started(0, imageData)

SegmenterSteps(free) ==
    \/ downsample
    \/ seedCentroids(free)
    \/ kmeansIteration
    \/ extractComponent
    \/ returnSegments

\* Every 3 x 3 and 3 x 1 image in two colours.
GridInit == SegmenterInit(TwoColourImages(3, 3) \cup TwoColourImages(3, 1))

GridNext == SegmenterSteps(MaxFreeSeeds)

GridSpec == GridInit /\ [][GridNext]_vars

\* The larger images.
ImageInit == SegmenterInit({TwoRectangles, EdgePixels, WideImage})

ImageNext == SegmenterSteps(MaxFreeSeeds)

ImageSpec == ImageInit /\ [][ImageNext]_vars

\* The session in which the image of 3 x 2 is loaded, replaced and reset at
\* any moment, while the runs are computed one after the other
\* and end by returning or by throwing.
LiveNext ==
    \/ handleImageUpload(5, TRUE)
    \/ imageEffectOnload(5)
    \/ handleReset
    \/ timerFired
    \/ SegmenterSteps(MaxFreeSeeds)
    \/ segmentationReturned
    \/ segmentationThrew

\* Weak fairness of the k-means passes and of the raster scan, with ENABLED
\* written out: a pass is enabled exactly while stage is "seeded" (it always
\* moves iter), a turn of the scan exactly while stage is "clustered" and a
\* pixel is unvisited (it always adds to visited).
LoopsFair ==
    /\ \/ []<>~(segRun.stage = "seeded" /\ segRun.iter < iterations)
       \/ []<><<kmeansIteration>>_vars
    /\ \/ []<>~(segRun.stage = "clustered" /\ segRun.visited # DOMAIN segRun.pixels)
       \/ []<><<extractComponent>>_vars

\* The timer of a run fires, the statements of a run follow one another, and
\* the continuation of a run that returned is run.
LiveSpec ==
    /\ Init
    /\ [][LiveNext]_vars
    /\ WF_vars(timerFired)
    /\ WF_vars(downsample)
    /\ WF_vars(seedCentroids(MaxFreeSeeds))
    /\ LoopsFair
    /\ WF_vars(returnSegments)
    /\ WF_vars(segmentationReturned)

\* The session on the image with the square: the image is loaded once and
\* has reached the canvas when the timer of its run fires; the run computes
\* without yielding; then the segment under the pointer is selected and the
\* cut-out exported.
SquareNext ==
    \/ /\ imageSrc = 0
       /\ handleImageUpload(1, TRUE)
    \/ imageEffectOnload(1)
    \/ /\ imageObj # 0
       /\ timerFired
    \/ SegmenterSteps(K)
    \/ segmentationReturned
    \/ /\ ~isLoading
       /\ \/ handleMouseDown(Pt(19, 19), FALSE)
          \/ ExportSteps

SquareSpec == Init /\ [][SquareNext]_vars
(***************************************************************************)
(* Steps named by the properties below.                                    *)
(***************************************************************************)
\* A step of a pointer handler of the canvas.
PointerStep == PointerSteps(BOOLEAN, ClickPos)

\* A pointer step that pushes a snapshot (pushState moves the cursor).
PushStep == historyIndex' # historyIndex /\ PointerStep

\* A smart-tool click that hits a segment.
ToggleStep == tool = "smart" /\ \E pos \in ClickPos : handleMouseDown(pos, FALSE)

\* A pointer release that commits the stroke drawn.
CommitStep == ~isPanning /\ isDrawing /\ mouseUpCommits /\ handleMouseUp

\* A segmentation run resolves.
ResolvedStep ==
    /\ pending # <<>>
    /\ pending' = Tail(pending)
    /\ \E segments \in SegmenterOutputs(Head(pending)) :
          segmentationResolved(segments)

\* The snapshot on top of the stack after the step.
pushed == history'[Len(history')]

(***************************************************************************)
(* Properties.                                                             *)
(***************************************************************************)
\* C1: a push (stroke commit or segment toggle) on stack H with cursor c
\* yields H[0..c] followed by the pushed snapshot, with the cursor on the new
\* last index; the snapshots after c are discarded.
C1_PushTruncatesAndAppends ==
    [][PushStep =>
        /\ Len(history') = historyIndex + 2
        /\ SubSeq(history', 1, historyIndex + 1) = SubSeq(history, 1, historyIndex + 1)
        /\ historyIndex' = Len(history') - 1]_vars

\* A stroke is about to be committed with the cursor below the top of a full
\* stack (after an undo): the push must discard the snapshot above the cursor.
C1_Witness ==
    /\ Len(history) = 3
    /\ historyIndex = 1
    /\ isDrawing
    /\ mouseUpCommits

\* C2: the stack is never empty and the cursor is a valid index of it.
C2_CursorValid ==
    /\ Len(history) >= 1
    /\ 0 <= historyIndex
    /\ historyIndex < Len(history)

\* Edits made on the second image's segments, undone to the bottom, while
\* nothing is outstanding.
C2_Witness ==
    /\ Len(history) = 3
    /\ historyIndex = 0
    /\ imageSrc = 2
    /\ pending = <<>>
    /\ history[1].smartSegments # <<>>

\* C3: undo at cursor 0 and redo at the top change nothing; otherwise undo
\* moves the cursor down by one and redo up by one; neither changes the stack.
C3_UndoRedoFrame ==
    [][/\ handleUndo =>
            /\ history' = history
            /\ historyIndex' = (IF historyIndex = 0 THEN 0 ELSE historyIndex - 1)
       /\ handleRedo =>
            /\ history' = history
            /\ historyIndex' = (IF historyIndex = Len(history) - 1
                                  THEN historyIndex ELSE historyIndex + 1)]_vars

\* The cursor is strictly inside a stack of three snapshots: undo and redo
\* both move it.
C3_Witness ==
    /\ Len(history) = 3
    /\ historyIndex = 1
    /\ history[3] # history[2]

\* C4: when a run resolves, the stack becomes exactly one snapshot that holds
\* the run's segments, none selected, and no manual paths; the cursor is 0.
C4_RunReplacesHistory ==
    [][ResolvedStep =>
        /\ Len(history') = 1
        /\ historyIndex' = 0
        /\ history'[1].manualPaths = <<>>
        /\ history'[1].smartSegments \in SegmenterOutputs(Head(pending))
        /\ \A i \in DOMAIN history'[1].smartSegments :
              ~history'[1].smartSegments[i].selected]_vars

\* A run is outstanding while the stack holds an edit made after the run
\* started: the run's result must replace this stack.
C4_Witness ==
    /\ pending # <<>>
    /\ Len(history) = 2
    /\ history[2].manualPaths # <<>>

\* C5: while a segmentation run is outstanding no pointer handler changes
\* the history: every stroke commit and segment toggle is rejected.
C5_EditsRejectedWhilePending ==
    [][(pending # <<>> /\ PointerStep) => UNCHANGED <<history, historyIndex>>]_vars

\* C6: at most one segmentation run is outstanding at any time.
C6_AtMostOneRunPending == Len(pending) <= 1

\* C7: the result of a run started for an image that is no longer the loaded
\* image (superseded by a newer load, or removed by reset) is discarded: the
\* history stays as it is.
C7_StaleResultDiscarded ==
    [][(ResolvedStep /\ Head(pending) # imageSrc) =>
          UNCHANGED <<history, historyIndex>>]_vars

\* C8: a step that changes the settings leaves the history and the cursor
\* (hence the brushSize of every committed path) unchanged, and undo, redo,
\* push, reset, image load and the end of a run leave the settings unchanged.
C8_SettingsApartFromHistory ==
    [][settings' # settings =>
          /\ UNCHANGED <<history, historyIndex>>
          /\ ~(HistorySteps \/ RunSteps(Images) \/ PointerStep)]_vars

\* A path committed with the large pen lies in the history while the pen is
\* back to its default and another setting has changed.
C8_Witness ==
    /\ \E i \in DOMAIN history : \E j \in DOMAIN history[i].manualPaths :
           history[i].manualPaths[j].brushSize = 20
    /\ settings.penSize = DEFAULT_PEN_SIZE
    /\ settings.invertMask
    /\ historyIndex < Len(history) - 1

\* C9: a toggle pushes exactly one snapshot, in which one segment's selected
\* flag is flipped and every other segment and the manual paths are those of
\* the current snapshot.
C9_ToggleFlipsOneSegment ==
    [][ToggleStep =>
        /\ Len(history') = historyIndex + 2
        /\ pushed.manualPaths = currentState.manualPaths
        /\ DOMAIN pushed.smartSegments = DOMAIN currentState.smartSegments
        /\ \E j \in DOMAIN currentState.smartSegments :
              /\ pushed.smartSegments[j] =
                    [currentState.smartSegments[j] EXCEPT !.selected = ~@]
              /\ \A i \in DOMAIN currentState.smartSegments \ {j} :
                    pushed.smartSegments[i] = currentState.smartSegments[i]]_vars

\* The top snapshot has the first of two segments selected and the second
\* not, over a stroke committed before: a toggle has flipped one flag only.
C9_Witness ==
    /\ historyIndex = Len(history) - 1
    /\ Len(currentState.smartSegments) = 2
    /\ currentState.smartSegments[1].selected
    /\ ~currentState.smartSegments[2].selected
    /\ currentState.manualPaths # <<>>

\* C10: a stroke commit pushes exactly one snapshot whose manual paths are the
\* current snapshot's followed by the new path, and whose segments are the
\* current snapshot's.
C10_CommitAppendsPath ==
    [][CommitStep =>
        /\ Len(history') = historyIndex + 2
        /\ pushed.smartSegments = currentState.smartSegments
        /\ pushed.manualPaths = currentState.manualPaths \o
              <<[points |-> currentPoints, tool |-> tool, brushSize |-> settings.penSize]>>]_vars

\* Two different strokes lie in the top snapshot in the order of their
\* commits, over a selected segment.
C10_Witness ==
    /\ historyIndex = 2
    /\ Len(currentState.manualPaths) = 2
    /\ currentState.manualPaths[1].tool = "subtract"
    /\ currentState.manualPaths[2].tool = "add"
    /\ currentState.smartSegments # <<>>

\* An export that saves a blob.
ExportStep == downloaded' # downloaded

\* The blob the step saves.
saved == downloaded'[Len(downloaded')]

\* Whether the stroke of a manual path covers p under the settings opts.
PathCovers(path, opts, p) ==
    /\ Len(path.points) >= 2
    /\ strokeCovers(path.points, effectiveSize(path, opts), FALSE, p)

\* Whether the filled boundary of a segment, or its border stroke, covers p.
SegmentCovers(seg, opts, p) ==
    /\ Len(seg.path.points) >= 2
    /\ \/ isPointInPath(seg.path.points, p)
       \/ /\ opts.borderSize > 0
          /\ strokeCovers(seg.path.points, opts.borderSize * 2, TRUE, p)

\* The manual paths (by position) that cover p.
Covering(paths, opts, p) == {j \in DOMAIN paths : PathCovers(paths[j], opts, p)}

\* The rule of inclusion: the last manual path covering p is an add path, or
\* none covers p and some selected segment does.
Included(segments, paths, opts, p) ==
    IF Covering(paths, opts, p) # {}
      THEN paths[SetMax(Covering(paths, opts, p))].tool = "add"
      ELSE \E i \in DOMAIN segments :
              segments[i].selected /\ SegmentCovers(segments[i], opts, p)

HasPoints(path) == Len(path.points) >= 2

HasBoundary(seg) == Len(seg.path.points) >= 2

\* C11: a snapshot that stays on the stack is never changed: across every
\* toggle, commit, undo and redo the snapshots up to the cursor are the same
\* before and after, and undo and redo leave every snapshot the same.
C11_SnapshotsImmutable ==
    [][(history' # history /\ (PointerStep \/ handleUndo \/ handleRedo)) =>
          /\ ~(handleUndo \/ handleRedo)
          /\ Len(history') >= historyIndex + 1
          /\ \A i \in 1..(historyIndex + 1) : history'[i] = history[i]]_vars

\* A segment was selected and then deselected by two toggles and the cursor
\* was moved back: the snapshot in the middle still shows it selected, the
\* first and the last still show it unselected.
C11_Witness ==
    /\ Len(history) = 3
    /\ historyIndex = 1
    /\ \E j \in DOMAIN history[1].smartSegments :
          /\ ~history[1].smartSegments[j].selected
          /\ history[2].smartSegments[j].selected
          /\ ~history[3].smartSegments[j].selected

\* C12: with feather 0 and inversion off, the exported mask is opaque at a
\* pixel iff the last manual path covering it is an add path, or no manual
\* path covers it and a selected segment (fill or border stroke) does; it is
\* empty there otherwise.  Unselected segments add nothing, overlapping
\* selected segments give plain opaque.
C12_MaskInclusionRule ==
    [][(ExportStep /\ settings.feather = 0 /\ ~settings.invertMask) =>
          \A p \in Pixels :
              saved[p].alpha =
                 (IF Included(smartSegmentsProp, manualPathsProp, settings, p)
                    THEN Opaque ELSE 0)]_vars

\* A mask was exported from two overlapping selected segments under an add
\* stroke followed by a subtract stroke: the stroke's pixel is cut out of the
\* segments, the rest of the segments is kept.
C12_Witness ==
    /\ downloaded # <<>>
    /\ Len(smartSegmentsProp) = 2
    /\ smartSegmentsProp[1].selected /\ smartSegmentsProp[2].selected
    /\ HasBoundary(smartSegmentsProp[1]) /\ HasBoundary(smartSegmentsProp[2])
    /\ Len(manualPathsProp) = 2
    /\ manualPathsProp[1].tool = "add" /\ HasPoints(manualPathsProp[1])
    /\ manualPathsProp[2].tool = "subtract" /\ HasPoints(manualPathsProp[2])
    /\ downloaded[1][Pt(5, 5)].alpha = 0
    /\ downloaded[1][Pt(9, 9)].alpha = Opaque
    /\ downloaded[1][Pt(30, 30)].alpha = 0

\* C13: of two manual strokes of different tools over the same pixels, the
\* later one decides (inversion off, feather 0): add then subtract leaves the
\* pixels out of the mask, subtract then add leaves them in.
C13_StrokeOrderDecides ==
    [][(ExportStep /\ settings.feather = 0 /\ ~settings.invertMask
          /\ Len(manualPathsProp) = 2
          /\ manualPathsProp[1].tool # manualPathsProp[2].tool) =>
          \A p \in Pixels :
              (PathCovers(manualPathsProp[1], settings, p)
                 /\ PathCovers(manualPathsProp[2], settings, p)) =>
              saved[p].alpha =
                 (IF manualPathsProp[2].tool = "add" THEN Opaque ELSE 0)]_vars

\* A mask was exported from a subtract stroke followed by an add stroke along
\* the same line, with no segment selected: the pixel under both is included.
C13_Witness ==
    /\ downloaded # <<>>
    /\ \A i \in DOMAIN smartSegmentsProp : ~smartSegmentsProp[i].selected
    /\ Len(manualPathsProp) = 2
    /\ manualPathsProp[1].tool = "subtract"
    /\ manualPathsProp[2].tool = "add"
    /\ manualPathsProp[1].points = manualPathsProp[2].points
    /\ HasPoints(manualPathsProp[1])
    /\ downloaded[1][Pt(5, 5)].alpha = Opaque

\* C14: with no selected segment and no manual path the exported mask is
\* empty at every pixel when inversion is off and opaque at every pixel when
\* it is on, whatever border and feather are.
C14_EmptySelectionMask ==
    [][(ExportStep /\ manualPathsProp = <<>>
          /\ \A i \in DOMAIN smartSegmentsProp : ~smartSegmentsProp[i].selected) =>
          \A p \in Pixels :
              saved[p].alpha = (IF settings.invertMask THEN Opaque ELSE 0)]_vars

\* With an unselected segment only, and feather on, the inverted mask was
\* exported: every pixel of the image is kept.
C14_Witness ==
    /\ downloaded # <<>>
    /\ manualPathsProp = <<>>
    /\ smartSegmentsProp # <<>>
    /\ \A i \in DOMAIN smartSegmentsProp : ~smartSegmentsProp[i].selected
    /\ settings.invertMask /\ settings.feather > 0
    /\ \A p \in Pixels : downloaded[1][p].alpha = Opaque

\* C15: with feather 0 the mask exported with inversion on is, pixel by
\* pixel, Opaque minus the mask composited from the same inputs with
\* inversion off, and inverting it again gives that mask back.
C15_InvertIsComplement ==
    [][(ExportStep /\ settings.feather = 0 /\ settings.invertMask) =>
          \A p \in Pixels :
              LET plain == renderMaskComposite(smartSegmentsProp, manualPathsProp,
                              [settings EXCEPT !.invertMask = FALSE])[p]
              IN  /\ saved[p].alpha = Opaque - plain
                  /\ inverted(saved[p].alpha) = plain]_vars

\* An inverted mask was exported from a selected segment under a subtract
\* stroke: the stroke's pixel and the outside are kept, the segment is cut.
C15_Witness ==
    /\ downloaded # <<>>
    /\ settings.invertMask /\ settings.feather = 0
    /\ \E i \in DOMAIN smartSegmentsProp :
          smartSegmentsProp[i].selected /\ HasBoundary(smartSegmentsProp[i])
    /\ \E j \in DOMAIN manualPathsProp :
          manualPathsProp[j].tool = "subtract" /\ HasPoints(manualPathsProp[j])
    /\ downloaded[1][Pt(5, 5)].alpha = Opaque
    /\ downloaded[1][Pt(9, 9)].alpha = 0
    /\ downloaded[1][Pt(30, 30)].alpha = Opaque

\* C16: manual paths and segment boundaries of fewer than 2 points add
\* nothing: the exported mask is the mask composited from the snapshot
\* without them, under every setting.
C16_ShortPathsContributeNothing ==
    [][ExportStep =>
          \A p \in Pixels :
              saved[p].alpha =
                 renderMaskComposite(SelectSeq(smartSegmentsProp, HasBoundary),
                                     SelectSeq(manualPathsProp, HasPoints),
                                     settings)[p]]_vars

\* A mask was exported from a snapshot holding a selected segment of one
\* boundary point and a manual path of one point (a wide add path next to
\* the sampled pixels) and nothing else: the mask is empty.
C16_Witness ==
    /\ downloaded # <<>>
    /\ ~settings.invertMask /\ settings.feather = 0
    /\ Len(smartSegmentsProp) = 1
    /\ smartSegmentsProp[1].selected /\ ~HasBoundary(smartSegmentsProp[1])
    /\ Len(manualPathsProp) = 1
    /\ Len(manualPathsProp[1].points) = 1
    /\ \A p \in Pixels : downloaded[1][p].alpha = 0

\* C17: an export that saves a blob composites the snapshot at the cursor
\* with the settings of the moment, also after undo and redo: each pixel of
\* the blob is the pixel of the image in the canvas where that mask is
\* opaque and is transparent where that mask is empty.
C17_ExportCutsCurrentSnapshot ==
    [][ExportStep =>
          \A p \in Pixels :
              LET m == renderMaskComposite(currentState.smartSegments,
                                           currentState.manualPaths, settings)[p]
              IN  /\ m = Opaque => saved[p] = [image |-> imageObj, alpha |-> Opaque]
                  /\ m = 0 => saved[p] = Transparent]_vars

\* The blob saved shows the segment selected at the cursor, cut by a subtract
\* stroke, while the snapshot above the cursor is a different one.
C17_Witness ==
    /\ downloaded # <<>>
    /\ Len(history) = 3
    /\ historyIndex = 1
    /\ history[3] # history[2]
    /\ \E i \in DOMAIN currentState.smartSegments : currentState.smartSegments[i].selected
    /\ currentState.manualPaths = <<>>
    /\ history[3].manualPaths # <<>>
    /\ ~settings.invertMask
    /\ downloaded[1][Pt(5, 5)] = [image |-> imageObj, alpha |-> Opaque]
    /\ downloaded[1][Pt(30, 30)] = Transparent

\* C18: an export while the canvas holds no image changes nothing:
\* exportImage returns null, no blob is saved, and history, cursor and
\* settings stay as they are.
C18_ExportWithoutImageIsNoOp ==
    [][(imageObj = 0 /\ ExportSteps) =>
          /\ \A ctxOk \in BOOLEAN : exportImageIsNull(ctxOk)
          /\ UNCHANGED <<downloaded, history, historyIndex, settings>>]_vars

\* The export button is shown while the canvas has not loaded the image yet,
\* with inversion on (the inverted mask of an empty snapshot is opaque).
C18_Witness ==
    /\ imageSrc # 0
    /\ imageObj = 0
    /\ settings.invertMask
    /\ downloaded = <<>>

\* A segmentation run fails.
RejectedStep ==
    /\ pending # <<>>
    /\ pending' = Tail(pending)
    /\ segmentationRejected

\* C19: when a run fails the session is left with a single snapshot without
\* segments and without manual paths, the cursor at 0 and loading cleared.
C19_FailedRunFallsBack ==
    [][RejectedStep =>
          /\ history' = <<INITIAL_HISTORY>>
          /\ historyIndex' = 0
          /\ ~isLoading']_vars

\* C20: the settings stay within the ranges of their sliders.
C20_SettingsInRange ==
    /\ settings.penSize \in 1..100
    /\ settings.borderSize \in 0..20
    /\ settings.feather \in 0..20

\* C21: reset leaves exactly one snapshot, without segments and without
\* manual paths, and the cursor at 0, whatever the stack and cursor were.
C21_ResetReplacesHistory ==
    [][handleReset =>
          /\ Len(history') = 1
          /\ history'[1].smartSegments = <<>>
          /\ history'[1].manualPaths = <<>>
          /\ historyIndex' = 0]_vars

\* A full stack over segments, with a selection and a stroke in it and the
\* cursor in the middle, from which reset may be taken.
C21_Witness ==
    /\ imageSrc # 0
    /\ Len(history) = 3
    /\ historyIndex = 1
    /\ history[1].smartSegments # <<>>
    /\ \E i \in DOMAIN history[2].smartSegments : history[2].smartSegments[i].selected
    /\ history[3].manualPaths # <<>>

\* The segments of the current snapshot whose closed boundary contains pos.
Containing(pos) ==
    {i \in DOMAIN currentState.smartSegments :
        isPointInPath(currentState.smartSegments[i].path.points, pos)}

\* C26: a click at pos with the smart tool that takes effect is a click
\* inside some segment, and it pushes exactly one snapshot, in which the
\* segment of the highest index among those containing pos is flipped and
\* nothing else differs; a click inside no segment is no step at all, so it
\* changes neither history nor cursor.
C26_ClickTogglesTopmostHit ==
    [][\A pos \in ClickPos :
          (tool = "smart" /\ handleMouseDown(pos, FALSE)) =>
              /\ Containing(pos) # {}
              /\ Len(history') = historyIndex + 2
              /\ historyIndex' = historyIndex + 1
              /\ SubSeq(history', 1, historyIndex + 1) = SubSeq(history, 1, historyIndex + 1)
              /\ pushed.manualPaths = currentState.manualPaths
              /\ DOMAIN pushed.smartSegments = DOMAIN currentState.smartSegments
              /\ \A i \in DOMAIN currentState.smartSegments :
                    pushed.smartSegments[i] =
                       IF i = SetMax(Containing(pos))
                         THEN [currentState.smartSegments[i] EXCEPT !.selected = ~@]
                         ELSE currentState.smartSegments[i]]_vars

\* Of two nested segments the inner, later one is selected and the outer one
\* is not: a click inside both has toggled the later one.
C26_Witness ==
    /\ historyIndex >= 1
    /\ historyIndex = Len(history) - 1
    /\ Len(currentState.smartSegments) = 2
    /\ currentState.smartSegments[2].selected
    /\ ~currentState.smartSegments[1].selected
    /\ currentState.manualPaths = <<>>
    /\ tool = "smart"

\* The grid index of the point p of a traced boundary.
IndexOf(p) == p.y * segRun.w + p.x

\* C22: every point of the boundary traced for a component is a pixel of
\* that component, so the traced boundaries of two segments of a run share
\* no pixel.
C22_BoundaryWithinComponent ==
    \A i \in DOMAIN segRun.found :
        \A j \in DOMAIN segRun.found[i].pathPoints :
            IndexOf(segRun.found[i].pathPoints[j]) \in segRun.found[i].componentPixels

\* C24: the boundary of every segment has at most 2 points, or more than 2
\* with the first equal to the last.
C24_BoundaryClosedOrShort ==
    \A i \in DOMAIN segRun.segments :
        LET points == segRun.segments[i].path.points
        IN  Len(points) <= 2 \/ points[1] = points[Len(points)]

\* A run has returned a boundary that simplifyPoints had to close and a
\* boundary of a single point.
C24_Witness ==
    /\ segRun.stage = "done"
    /\ \E i \in DOMAIN segRun.segments :
          LET points == segRun.segments[i].path.points
          IN  /\ Len(points) > 3
              /\ points[1] = points[Len(points)]
              /\ points[Len(points) - 1] # points[1]
    /\ \E i \in DOMAIN segRun.segments : Len(segRun.segments[i].path.points) = 1

\* Pixels m and n of a grid of width w are horizontally or vertically adjacent.
Adjacent(m, n, w) ==
    \/ m \div w = n \div w /\ (m - n = 1 \/ n - m = 1)
    \/ m % w = n % w /\ (m - n = w \/ n - m = w)

\* The pixels of S that chains of adjacent pixels of S join to the pixels of
\* reached; frontier are the pixels reached last.
RECURSIVE Joined(_, _, _, _)
Joined(frontier, reached, S, w) ==
    LET more == {n \in S \ reached : \E m \in frontier : Adjacent(m, n, w)}
    IN  IF more = {} THEN reached ELSE Joined(more, reached \cup more, S, w)

\* The maximal set of pixels with the label of pixel idx that chains of
\* adjacent pixels join to idx.
Component(idx) ==
    Joined({idx}, {idx},
           {n \in DOMAIN segRun.pixels : pixelLabels[n] = pixelLabels[idx]}, segRun.w)

\* C29: every component the search finds is a maximal set of pixels of one
\* label joined by chains of horizontally or vertically adjacent pixels.
C29_FourConnectedComponents ==
    \A i \in DOMAIN segRun.found :
        segRun.found[i].componentPixels = Component(segRun.found[i].start)

\* C30: the boundary traced for a component has at most w * h points.
C30_TraceWithinBudget ==
    \A i \in DOMAIN segRun.found :
        Len(segRun.found[i].pathPoints) <= segRun.w * segRun.h

\* The walk along a row of three pixels turns back at its end and is stopped
\* by the budget with w * h points, before it returns to the start.
C30_Witness ==
    /\ segRun.w * segRun.h = 3
    /\ \E i \in DOMAIN segRun.found :
          /\ Len(segRun.found[i].pathPoints) = 3
          /\ segRun.found[i].pathPoints[3] # segRun.found[i].pathPoints[1]
          /\ Cardinality(segRun.found[i].componentPixels) = 3

\* C23: every segment a run returns is the boundary of a component that
\* holds at least 0.5% of the pixels of the working grid.
C23_SegmentsFromLargeComponents ==
    \A i \in DOMAIN segRun.found :
        segRun.found[i].emitted =>
            Cardinality(Component(segRun.found[i].start)) * 1000 >= segRun.w * segRun.h * 5

\* C25: an image of at most 150 x 150 is worked on as it is, at scale 1; the
\* working grid of a larger image is at most 150 x 150.
C25_DownsampleScale ==
    segRun.stage \notin {"idle", "start"} =>
        IF Max(segRun.imageData.width, segRun.imageData.height) <= 150
          THEN /\ segRun.scale.num = segRun.scale.den
               /\ segRun.w = segRun.imageData.width
               /\ segRun.h = segRun.imageData.height
               /\ \A x \in 0..(segRun.w - 1), y \in 0..(segRun.h - 1) :
                     segRun.pixels[y * segRun.w + x]
                        = segRun.imageData.data[y * segRun.imageData.width + x]
          ELSE segRun.w <= 150 /\ segRun.h <= 150

\* The image of 11 x 6 in three colours has been copied into the working grid.
C25_Witness ==
    /\ segRun.stage = "sampled"
    /\ segRun.imageData.width = 11 /\ segRun.imageData.height = 6
    /\ segRun.w = 11 /\ segRun.h = 6
    /\ Cardinality(Colours(segRun.pixels)) = 3

\* The centre of the pixel (x, y) of the working grid lies inside the filled
\* boundary of segment i of the run (coordinates doubled).
FillsPixel(i, x, y) ==
    LET points == segRun.segments[i].path.points
    IN  isPointInPath([k \in DOMAIN points |-> Pt(2 * points[k].x, 2 * points[k].y)],
                      Pt(2 * x + 1, 2 * y + 1))

\* C27: the run on the image of the two rectangles returns, whatever the
\* initial centroids, two segments whose filled boundaries share no pixel.
C27_TwoDisjointSegments ==
    (segRun.stage = "done" /\ segRun.imageData = TwoRectangles) =>
        \E i, j \in DOMAIN segRun.segments :
            /\ i # j
            /\ \A x \in 0..(segRun.w - 1), y \in 0..(segRun.h - 1) :
                  ~(FillsPixel(i, x, y) /\ FillsPixel(j, x, y))

\* The smallest and largest coordinates of a boundary.
BoxOf(points) ==
    LET xs == {points[k].x : k \in DOMAIN points}
        ys == {points[k].y : k \in DOMAIN points}
    IN  [minX |-> CHOOSE v \in xs : \A u \in xs : v <= u,
         minY |-> CHOOSE v \in ys : \A u \in ys : v <= u,
         maxX |-> SetMax(xs), maxY |-> SetMax(ys)]

Within(m, n, d) == m - n <= d /\ n - m <= d

\* The box of the boundary is [10,10]-[30,30] to within the tolerance of
\* simplifyPoints.
IsSquareBox(points) ==
    /\ points # <<>>
    /\ Within(BoxOf(points).minX, 10, tolerance)
    /\ Within(BoxOf(points).minY, 10, tolerance)
    /\ Within(BoxOf(points).maxX, 30, tolerance)
    /\ Within(BoxOf(points).maxY, 30, tolerance)

InBox(p, box) ==
    /\ box.minX <= p.x /\ p.x <= box.maxX
    /\ box.minY <= p.y /\ p.y <= box.maxY

\* The segments of the snapshot on display that are selected.
SelectedSegments == {i \in DOMAIN smartSegmentsProp : smartSegmentsProp[i].selected}

\* C28: on the image of the black square, whatever the initial centroids, the
\* passes give the square and the rest different labels, the run returns a
\* segment whose bounding box is the square's within the tolerance, and an
\* export with the default settings while that segment alone is selected is
\* opaque only inside the bounding box of the segment.
C28_SquareSegmentedAndExported ==
    /\ [](segRun.stage \in {"clustered", "done"} => segRun.labels[Black] # segRun.labels[Red])
    /\ [](segRun.stage = "done" =>
             \E i \in DOMAIN segRun.segments : IsSquareBox(segRun.segments[i].path.points))
    /\ [][\A i \in DOMAIN smartSegmentsProp :
             ( /\ SelectedSegments = {i}
               /\ IsSquareBox(smartSegmentsProp[i].path.points)
               /\ settings = INITIAL_SETTINGS
               /\ handleExport(TRUE) )
             => /\ Len(downloaded') = Len(downloaded) + 1
                /\ \A p \in Pixels :
                      downloaded'[Len(downloaded')][p].alpha > 0
                         => InBox(p, BoxOf(smartSegmentsProp[i].path.points))]_vars

\* The segment of the square was selected by a click inside it and the cut-out
\* exported: it is opaque inside the square and transparent elsewhere.
C28_Witness ==
    /\ imageObj = 1
    /\ Len(smartSegmentsProp) = 2
    /\ SelectedSegments = {2}
    /\ IsSquareBox(smartSegmentsProp[2].path.points)
    /\ Len(downloaded) = 1
    /\ downloaded[1][Pt(18, 18)] = sourcePixel(1)
    /\ \A p \in Pixels \ {Pt(18, 18)} : downloaded[1][p] = Transparent

\* dist(col, a) <= dist(col, b) for the centroids a and b as fractions.
NotFarther(col, a, b) ==
    distTimesCountSq(col, a) * b.count * b.count <= distTimesCountSq(col, b) * a.count * a.count

\* C31: a k-means pass labels every pixel with an index in 0..7 of a centroid
\* at the least squared distance from the pixel, the lowest such index.
C31_NearestCentroidLowestIndex ==
    [][kmeansIteration =>
          \A i \in DOMAIN segRun.pixels :
             LET col == segRun.pixels[i]
                 label == segRun'.labels[col]
             IN  /\ label \in 0..7
                 /\ \A j \in 0..7 : NotFarther(col, segRun.centroids[label], segRun.centroids[j])
                 /\ \A j \in 0..(label - 1) :
                       ~NotFarther(col, segRun.centroids[j], segRun.centroids[label])]_vars

\* After the first pass two clusters are in use, and a centroid that still is
\* the colour it was picked from has lost that colour to a lower index, which
\* was as near.
C31_Witness ==
    /\ segRun.stage = "seeded"
    /\ segRun.iter = 1
    /\ Cardinality({segRun.labels[col] : col \in DOMAIN segRun.labels}) = 2
    /\ \E col \in DOMAIN segRun.labels, j \in 1..7 :
          /\ segRun.labels[col] < j
          /\ segRun.centroids[j] = [sums |-> col, count |-> 1]

\* The segment the run pushed for the i-th set it found, when it pushed one.
SegmentOf(i) == Cardinality({j \in 1..i : segRun.found[j].emitted})

\* The boundary simplifyPoints was called with for the i-th set found.
SimplifyInput(i) == originalPoints(segRun.found[i].pathPoints, segRun.scale)

\* The indices of points that are kept: the first, and every later one that
\* is more than the tolerance away from the nearest kept index before it.
KeptIndices(points) ==
    CHOOSE S \in SUBSET DOMAIN points :
        /\ 1 \in S
        /\ \A n \in 2..Len(points) :
              n \in S <=> DistSq(points[n], points[SetMax({k \in S : k < n})])
                             > tolerance * tolerance

\* The points at the indices S, in their order.
RECURSIVE PointsAt(_, _)
PointsAt(points, S) ==
    IF S = {} THEN <<>>
    ELSE Append(PointsAt(points, S \ {SetMax(S)}), points[SetMax(S)])

\* C32: for a boundary of more than 2 points the result of simplifyPoints is,
\* but for the closing point, the first point followed by exactly the later
\* points that are more than the tolerance from the point kept last, in order.
C32_SimplifyKeepsFarPoints ==
    \A i \in DOMAIN segRun.found :
        (segRun.found[i].emitted /\ Len(SimplifyInput(i)) > 2) =>
            LET kept == PointsAt(SimplifyInput(i), KeptIndices(SimplifyInput(i)))
                res == segRun.segments[SegmentOf(i)].path.points
            IN  /\ res[1] = SimplifyInput(i)[1]
                /\ res \in {kept, Append(kept, kept[1])}
                /\ res # kept => Len(kept) > 2 /\ kept[Len(kept)] # kept[1]

\* A boundary of which simplifyPoints kept a later point and dropped a point
\* exactly the tolerance away from the point kept before it.
C32_Witness ==
    \E i \in DOMAIN segRun.found :
        /\ segRun.found[i].emitted
        /\ Len(SimplifyInput(i)) > 2
        /\ Cardinality(KeptIndices(SimplifyInput(i))) >= 2
        /\ \E n \in DOMAIN SimplifyInput(i) \ KeptIndices(SimplifyInput(i)) :
              DistSq(SimplifyInput(i)[n],
                     SimplifyInput(i)[SetMax({k \in KeptIndices(SimplifyInput(i)) : k < n})])
                 = tolerance * tolerance

\* The width the border gives the stroke of a manual path.
StatedWidth(path, border) ==
    IF border = 0 THEN path.brushSize
    ELSE IF path.tool = "add" THEN path.brushSize + 2 * border
    ELSE IF path.brushSize - 2 * border >= 1 THEN path.brushSize - 2 * border
    ELSE 1

\* C33: a manual path is stroked with brushSize + 2 * borderSize when it adds
\* and with max(1, brushSize - 2 * borderSize) when it subtracts, and with
\* brushSize when borderSize is 0; the width is at least 1 for a brush in
\* 1..100 and a border in 0..20; an exported mask of one path is the stroke
\* of that width.
C33_EffectiveStrokeWidth ==
    /\ [](\A i \in DOMAIN manualPathsProp :
             /\ effectiveSize(manualPathsProp[i], settings)
                   = StatedWidth(manualPathsProp[i], settings.borderSize)
             /\ ( /\ manualPathsProp[i].brushSize \in 1..100
                  /\ settings.borderSize \in 0..20 )
                => effectiveSize(manualPathsProp[i], settings) >= 1)
    /\ [][(ExportStep /\ Len(manualPathsProp) = 1 /\ smartSegmentsProp = <<>>
             /\ settings.feather = 0 /\ ~settings.invertMask) =>
             \A p \in Pixels :
                saved[p].alpha =
                   (IF /\ manualPathsProp[1].tool = "add"
                       /\ strokeCovers(manualPathsProp[1].points,
                                       StatedWidth(manualPathsProp[1], settings.borderSize),
                                       FALSE, p)
                      THEN Opaque ELSE 0)]_vars

\* A mask was exported while a subtract path of the thinnest brush follows an
\* add path of the same brush under a border of 2: the subtract stroke is
\* 1 wide, the add stroke 5.
C33_Witness ==
    /\ downloaded # <<>>
    /\ settings.borderSize = 2
    /\ Len(manualPathsProp) = 2
    /\ manualPathsProp[1].tool = "add" /\ manualPathsProp[1].brushSize = 1
    /\ manualPathsProp[2].tool = "subtract" /\ manualPathsProp[2].brushSize = 1
    /\ effectiveSize(manualPathsProp[2], settings) = 1
    /\ downloaded[1] = exportImage

\* The manual paths of every snapshot on the stack.
ManualPathsOnStack ==
    UNION {{history[i].manualPaths[j] : j \in DOMAIN history[i].manualPaths} :
              i \in DOMAIN history}

\* C34: every manual path of every snapshot has at least 2 points and the
\* tool add or subtract; a pointer release after fewer than 2 sampled points,
\* or under the smart tool, leaves the stack and the cursor as they are.
C34_ManualPathsAreStrokes ==
    /\ [](\A path \in ManualPathsOnStack :
             Len(path.points) >= 2 /\ path.tool \in {"add", "subtract"})
    /\ [][(handleMouseUp /\ ~isPanning /\ (Len(currentPoints) < 2 \/ tool = "smart"))
             => history' = history /\ historyIndex' = historyIndex]_vars

\* A drag of two points under the subtract tool was committed, and a press
\* without a move is under way under the add tool.
C34_Witness ==
    /\ \E path \in ManualPathsOnStack : path.tool = "subtract" /\ Len(path.points) = 2
    /\ isDrawing
    /\ Len(currentPoints) = 1
    /\ tool = "add"

\* Whether c is one of the 8 neighbours of b.
IsNeighbour(b, c) == \E i \in 0..7 : Moved(b, i) = c

\* Whether the backtrack pointer is a neighbour of the current pixel at the
\* start of every turn of the walk from the state t on.
RECURSIVE BacktrackAdjacent(_, _, _, _, _, _)
BacktrackAdjacent(t, startPixel, labels, w, h, targetLabel) ==
    IF t.ended THEN TRUE
    ELSE /\ IsNeighbour(t.b, t.c)
         /\ BacktrackAdjacent(traceTurn(t, startPixel, labels, w, h, targetLabel),
                              startPixel, labels, w, h, targetLabel)

\* C35: in every walk of traceBoundary the backtrack pointer c is one of the
\* 8 neighbours of the current pixel b at the start of every turn, so the
\* direction of c is always found, also along the edge of the grid.
C35_BacktrackIsNeighbour ==
    \A i \in DOMAIN segRun.found :
        segRun.found[i].emitted =>
            LET startPixel == Pt(segRun.found[i].start % segRun.w, segRun.found[i].start \div segRun.w)
            IN  BacktrackAdjacent(traceStart(startPixel), startPixel, pixelLabels,
                                  segRun.w, segRun.h, segRun.found[i].clusterId)

\* A walk of at least 4 turns was made from a pixel of the left edge, where
\* the backtrack pointer starts outside the grid, around a component that
\* reaches the right and the bottom edge.
C35_Witness ==
    \E i \in DOMAIN segRun.found :
        /\ segRun.found[i].emitted
        /\ segRun.found[i].start % segRun.w = 0
        /\ Len(segRun.found[i].pathPoints) >= 4
        /\ \E k \in DOMAIN segRun.found[i].pathPoints :
              /\ segRun.found[i].pathPoints[k].x = segRun.w - 1
              /\ segRun.found[i].pathPoints[k].y = segRun.h - 1

\* A single pass: the selected segments painted once with alpha colorAlpha,
\* then the manual paths applied once in the order of their commits.
SinglePass(segments, paths, opts, colorAlpha, p) ==
    IF OnCanvas(p)
      THEN drawPaths(paths, opts, p, drawSegments(segments, opts, colorAlpha, p, 0))
      ELSE 0

\* C36: the mask composited by the four passes (tinted segments, paths,
\* opaque segments, paths again) includes exactly the pixels that a single
\* pass of the selected segments, tinted or opaque, followed by the manual
\* paths includes, for every list of segments and paths and every border.
C36_TwoPassesAsOne ==
    [][(ExportStep /\ settings.feather = 0 /\ ~settings.invertMask) =>
          \A p \in Pixels :
              /\ saved[p].alpha > 0
                    <=> SinglePass(smartSegmentsProp, manualPathsProp, settings, Opaque, p) > 0
              /\ saved[p].alpha > 0
                    <=> SinglePass(smartSegmentsProp, manualPathsProp, settings,
                                   SegmentColorAlpha, p) > 0]_vars

\* A mask was exported under a border from a selected segment and a subtract
\* stroke that crosses it: the stroke's pixel is out, the rest of the segment
\* is in.
C36_Witness ==
    /\ downloaded # <<>>
    /\ settings.borderSize > 0
    /\ \E i \in DOMAIN smartSegmentsProp :
          smartSegmentsProp[i].selected /\ HasBoundary(smartSegmentsProp[i])
    /\ Len(manualPathsProp) = 1
    /\ manualPathsProp[1].tool = "subtract" /\ HasPoints(manualPathsProp[1])
    /\ downloaded[1][Pt(5, 5)].alpha = 0
    /\ downloaded[1][Pt(9, 9)].alpha = Opaque

\* C37: the loading flag is set in every state in which a segmentation run
\* is outstanding, also when a second load started a run before the first
\* run completed.
C37_LoadingWhileRunsOutstanding ==
    pending # <<>> => isLoading

\* C38: whenever no image is loaded the snapshot at the cursor has no
\* segments and no manual paths, also when a run that was pending at a reset
\* completes after it.
C38_NoImageNoMask ==
    imageSrc = 0 => currentState = INITIAL_HISTORY

\* C39: a run that is waiting for its timer begins, a run that has begun
\* ends, by returning or by throwing; when no run is outstanding the loading
\* flag is false; and the loading flag never stays true for ever.
C39_RunsEndAndLoadingClears ==
    /\ [](pending = <<>> => ~isLoading)
    /\ (pending # <<>> /\ segRun.stage = "idle") ~> (segRun.stage = "start")
    /\ (segRun.stage # "idle") ~> (segRun.stage = "idle")
    /\ isLoading ~> ~isLoading

\* The only run threw: the image is loaded, no run is outstanding, the
\* loading flag is false and the history holds the empty snapshot.
C39_Witness ==
    /\ imageSrc = 5
    /\ pending = <<>>
    /\ segRun.stage = "idle"
    /\ ~isLoading
    /\ history = <<INITIAL_HISTORY>>

=============================================================================
